---- MODULE Spec2Model ----
(***************************************************************************)
(* Adjudication orchestrator of mediclaim-backend:                         *)
(*   app/rules_engine.py      adjudicate_claim                             *)
(*   app/rules_utils.py       identify_non_payable_items,                  *)
(*                            get_rule_match_with_llm,                     *)
(*                            apply_policy_rule_with_llm_tools,            *)
(*                            run_final_sanity_check                       *)
(*   app/pydantic_schemas.py  AdjudicatedLineItem, AdjudicatedClaim        *)
(*                                                                         *)
(* One run of adjudicate_claim is one behaviour.  The coroutine is cut at  *)
(* its await points (the two asyncio.gather joins and the sanity call);    *)
(* every oracle call that the event loop completes is one step.            *)
(*                                                                         *)
(* Data classes are records.  `status` of an AdjudicatedLineItem is the    *)
(* computed property of the schema: it is read-only, so the store          *)
(* `item.status = "Disallowed"` leaves what the property returns           *)
(* unchanged.  `total_amount_reimbursed` is the attribute adjudicate_claim *)
(* writes; `total_allowed_amount` is the field the schema declares, which  *)
(* adjudicate_claim never writes.  pydantic's own validation of keywords   *)
(* and attribute stores is library code and is not modelled: where it      *)
(* rejects a store or a constructor call the run ends there with an        *)
(* exception, i.e. it is a prefix of a run of this model, so every         *)
(* invariant established here holds of those shorter runs as well.         *)
(* Building the prompt of the sanity call is part of that call, which      *)
(* either raises or answers.                                               *)
(*                                                                         *)
(* Amounts are integers (rupees); the inputs are multiples of ten and the  *)
(* co-payment percentages divide them exactly, so the float arithmetic of  *)
(* the code is exact on every value the model visits.                      *)
(*                                                                         *)
(* Extraction side, app/value_extractor.py:                                *)
(*   extract_data_from_bill   uptime checks, choice of providers, the two  *)
(*                            concurrent calls (ExtractSpec)               *)
(*   _build_fused_payload     _merge_headers, _greedy_match_pairs,         *)
(*                            _merge_line_items (FusionSpec)               *)
(*   _descriptions_match      one call on two descriptions (MatchSpec)     *)
(* One call of apply_policy_rule_with_llm_tools on an arbitrary item is    *)
(* ApplySpec; LiveSpec is Spec with the fairness the event loop gives.     *)
(* The specifications share the variables; each holds the parts it does    *)
(* not run at their idle values.  A payload is a record of fields          *)
(* [value, confidence]; a value is None or Some(v).  Confidences are in    *)
(* hundredths (0.7 is 70), amounts and quantities in tenths (2.5 is 25),   *)
(* so that rounding half away from zero and the comparisons with 0.7 are   *)
(* exact.  A similarity score is the fraction <<numerator, denominator>>.  *)
(* _normalize_text and difflib's ratio are tabulated from the functions    *)
(* themselves on the description texts of the model.  The module global    *)
(* _embed_model stays None: only _embed_similarity loads it, and           *)
(* _descriptions_match calls _embed_similarity only when it is loaded.     *)
(***************************************************************************)
EXTENDS Integers, Sequences, FiniteSets, TLC

\* ---------------------------------------------------------------------
\* Bounds and input domains
\* ---------------------------------------------------------------------

\* longest list of line items on a bill
MaxItems == 2

Null == "None"
Raise == "raise"
NoCall == "no call"

\* Optional[T]: the empty sequence is None, <<v>> is the value v
None == <<>>

Some(v) == <<v>>

Descriptions == {"Cotton Buds", "Room Rent"}

\* LineItem.total_amount is an unconstrained float: negative, zero, positive
ItemAmounts == {-10, 0, 20}

NP_CATEGORY == "Non-Payable Item"

NP_REASON == "Non-payable item as per IRDAI guidelines."

\* what NormalizationService.normalize_description can give for a description
NormResults == {NP_CATEGORY, "Consultation", Null, Raise}

\* keys of the rulebook's sub_limits, and the names the Rule-Match oracle
\* can answer (one of them is outside the rulebook)
RuleNames == {"Room Charges"}

OracleRuleNames == {"Room Charges", "Unknown Rule"}

\* raw answers of the structured Rule-Match LLM: no response object, a
\* response with applicable_rule_name None / "" / a name
MatchResponses == {Null, "", Raise} \cup OracleRuleNames

SumInsuredVals == {10, 30}

CoPayVals == {0, 50}

Policies ==
    [sum_insured : SumInsuredVals,
     co_payment_percentage : CoPayVals,
     sub_limits : {{}, RuleNames}]

PolicyNumbers == {"MVP1", "NOPE"}

NetPayableAmounts == {30}

\* values the structured Rule-Apply LLM can return for an item: any
\* schema-valid AdjudicatedLineItem (the schema relates no two fields)
ApplyResults ==
    { [total_amount |-> 20, allowed_amount |-> 20, disallowed_amount |-> 0,  reason |-> Null],
      [total_amount |-> 20, allowed_amount |-> 10, disallowed_amount |-> 10, reason |-> "Sub-limit"],
      [total_amount |-> 20, allowed_amount |-> 0,  disallowed_amount |-> 20, reason |-> "Sub-limit"],
      [total_amount |-> 20, allowed_amount |-> 10, disallowed_amount |-> 0,  reason |-> Null] }

\* an oracle call either raises or returns a value
ApplyOutcomes ==
    {[raised |-> FALSE, value |-> v] : v \in ApplyResults}
    \cup {[raised |-> TRUE, value |-> CHOOSE v \in ApplyResults : TRUE]}

SanityResults ==
    { [is_reasonable |-> TRUE,  flags |-> {}],
      [is_reasonable |-> FALSE, flags |-> {"High Disallowance"}] }

SanityOutcomes ==
    {[raised |-> FALSE, value |-> v] : v \in SanityResults}
    \cup {[raised |-> TRUE, value |-> CHOOSE v \in SanityResults : TRUE]}

LineItems == [description : Descriptions, total_amount : ItemAmounts]

RECURSIVE SeqsUpTo(_, _)
SeqsUpTo(S, n) ==
    IF n = 0 THEN {<<>>}
    ELSE LET shorter == SeqsUpTo(S, n - 1)
         IN  shorter \cup {Append(s, x) : s \in {t \in shorter : Len(t) = n - 1}, x \in S}

\* ---------------------------------------------------------------------
\* Helpers
\* ---------------------------------------------------------------------

Range(s) == {s[i] : i \in DOMAIN s}

RECURSIVE SumAllowed(_)
SumAllowed(items) ==
    IF items = <<>> THEN 0
    ELSE Head(items).allowed_amount + SumAllowed(Tail(items))

Min(a, b) == IF a <= b THEN a ELSE b

\* ---------------------------------------------------------------------
\* pydantic_schemas.py
\* ---------------------------------------------------------------------

\* AdjudicatedLineItem.status (computed property)
status(item) ==
    LET total == item.allowed_amount + item.disallowed_amount
    IN  IF total = 0 THEN "Allowed"
        ELSE IF item.allowed_amount > 0 /\ item.disallowed_amount > 0 THEN "Partially Allowed"
        ELSE IF item.allowed_amount > 0 /\ item.disallowed_amount = 0 THEN "Allowed"
        ELSE "Disallowed"

\* ---------------------------------------------------------------------
\* State
\* ---------------------------------------------------------------------

VARIABLES
    pc,                      \* position of adjudicate_claim
    POLICY_RULEBOOK,         \* static reference data
    policy_number,           \* insurance_details.policy_number
    line_items,              \* extracted_data.line_items
    net_payable_amount,      \* extracted_data.net_payable_amount
    policy,                  \* rules_engine.py:269, None until looked up
    adjudicated_claim,       \* the AdjudicatedClaim being built
    items_to_process,        \* rules_engine.py:345
    matched_rule_names,      \* result slots of the first gather
    final_adjudicated_items, \* rules_engine.py:357
    items_to_update,         \* rules_engine.py:359
    updated_items,           \* result slots of the second gather
    returned,                \* value adjudicate_claim returned, or None
    error,                   \* exception adjudicate_claim raised, or Null
    normOut,                 \* answers of the Normalization oracle, by description
    matchOut,                \* answer of the Rule-Match call made for input item i
    applyOut,                \* answer of the Rule-Apply call made for input item i
    sanityOut,               \* answer of the Sanity oracle
    normalizeCalls,          \* number of normalize_description calls
    ruleMatchCalls,          \* number of Rule-Match calls per input item
    ruleApplyCalls,          \* number of Rule-Apply oracle calls per input item
    ruleMatchReturned,       \* input items whose Rule-Match call has returned
    ruleApplyReturned,       \* input items whose Rule-Apply call has returned
    aggregationStarted,      \* step 4 has begun
    sanityCalls              \* number of Sanity oracle calls

\* state of the extraction side (app/value_extractor.py)
VARIABLES
    _embed_model,            \* value_extractor.py:31 module global, None until loaded
    embeddings_available,    \* value_extractor.py:26-48, the imports succeeded
    cosine,                  \* what the loaded model gives for two different strings
    match_calls,             \* number of _descriptions_match calls of the process
    called_a,                \* first argument of the latest _descriptions_match call
    called_b,                \* second argument of the latest _descriptions_match call
    match_result,            \* result of the latest _descriptions_match call
    xpc,                     \* position of extract_data_from_bill
    gemini_up,               \* value_extractor.py:711
    openai_up,               \* value_extractor.py:712
    sonnet_up,               \* value_extractor.py:713
    chosen_labels,           \* value_extractor.py:727
    results,                 \* result slots of asyncio_gather_safe
    extracted,               \* what extract_data_from_bill returned or raised, or None
    providerOut,             \* outcome of the extraction call made to each provider
    fpc,                     \* position of _build_fused_payload
    res1,                    \* first payload handed to _build_fused_payload
    res2,                    \* second payload handed to _build_fused_payload
    fused_headers,           \* value of _merge_headers, None until computed
    pairs,                   \* value_extractor.py:515, the pairs of _greedy_match_pairs
    fused_line_items         \* value of _merge_line_items, None until computed

\* state of one call of apply_policy_rule_with_llm_tools (app/rules_utils.py)
VARIABLES
    apc,                     \* position of apply_policy_rule_with_llm_tools
    apply_item,              \* argument item
    apply_policy_rule,       \* argument policy_rule
    apply_sum_insured,       \* argument sum_insured
    agent_calls,             \* number of agent_executor.ainvoke calls
    formatter_calls,         \* number of llm_structured_final.ainvoke calls
    apply_returned           \* what the coroutine returned, or None

adjudication ==
    <<pc, POLICY_RULEBOOK, policy_number, line_items, net_payable_amount,
      policy, adjudicated_claim, items_to_process, matched_rule_names,
      final_adjudicated_items, items_to_update, updated_items, returned,
      error, normOut, matchOut, applyOut, sanityOut, normalizeCalls,
      ruleMatchCalls, ruleApplyCalls, ruleMatchReturned, ruleApplyReturned,
      aggregationStarted, sanityCalls>>

orchestration ==
    <<xpc, gemini_up, openai_up, sonnet_up, chosen_labels, results, extracted,
      providerOut>>

fusion == <<fpc, res1, res2, fused_headers, pairs, fused_line_items>>

similarity ==
    <<_embed_model, embeddings_available, cosine, match_calls, called_a,
      called_b, match_result>>

extraction == <<similarity, orchestration, fusion>>

application ==
    <<apc, apply_item, apply_policy_rule, apply_sum_insured, agent_calls,
      formatter_calls, apply_returned>>

vars == <<adjudication, application, extraction>>

inputs == <<POLICY_RULEBOOK, policy_number, line_items, net_payable_amount>>

ItemIds == DOMAIN line_items

\* the claim object before adjudicate_claim has built it
NoClaim ==
    [adjudicated_line_items |-> <<>>, total_claimed_amount |-> 0,
     total_amount_reimbursed |-> 0, adjustments_log |-> <<>>,
     sanity_check_result |-> None]

Providers == {"Gemini", "GPT-5", "Sonnet"}

\* the module as imported without sentence_transformers, and no
\* _descriptions_match call made yet
SimilarityIdle ==
    /\ _embed_model = None
    /\ embeddings_available = FALSE
    /\ cosine = <<0, 1>>
    /\ match_calls = 0
    /\ called_a = ""
    /\ called_b = ""
    /\ match_result = None

\* apply_policy_rule_with_llm_tools is not being called on its own
ApplicationIdle ==
    /\ apc = "idle"
    /\ apply_item = None
    /\ apply_policy_rule = None
    /\ apply_sum_insured = 0
    /\ agent_calls = 0
    /\ formatter_calls = 0
    /\ apply_returned = None

\* no extraction request is being served
OrchestrationIdle ==
    /\ xpc = "start"
    /\ gemini_up = FALSE
    /\ openai_up = FALSE
    /\ sonnet_up = FALSE
    /\ chosen_labels = <<>>
    /\ results = <<>>
    /\ extracted = None
    /\ providerOut = [p \in Providers |-> None]

\* no pair of payloads is being fused
FusionIdle ==
    /\ fpc = "start"
    /\ res1 = None
    /\ res2 = None
    /\ fused_headers = None
    /\ pairs = << >>
    /\ fused_line_items = None

\* the state before adjudicate_claim runs on a bill
AdjudicationInit ==
    /\ pc = "start"
    /\ POLICY_RULEBOOK \in [{"MVP1"} -> Policies]
    /\ policy_number \in PolicyNumbers
    /\ line_items \in SeqsUpTo(LineItems, MaxItems)
    /\ net_payable_amount \in NetPayableAmounts
    /\ policy = None
    /\ adjudicated_claim = NoClaim
    /\ items_to_process = <<>>
    /\ matched_rule_names = <<>>
    /\ final_adjudicated_items = <<>>
    /\ items_to_update = <<>>
    /\ updated_items = <<>>
    /\ returned = None
    /\ error = Null
    /\ normOut = [d \in {} |-> Null]
    /\ matchOut = [i \in DOMAIN line_items |-> NoCall]
    /\ applyOut = [i \in DOMAIN line_items |-> None]
    /\ sanityOut = None
    /\ normalizeCalls = 0
    /\ ruleMatchCalls = [i \in DOMAIN line_items |-> 0]
    /\ ruleApplyCalls = [i \in DOMAIN line_items |-> 0]
    /\ ruleMatchReturned = {}
    /\ ruleApplyReturned = {}
    /\ aggregationStarted = FALSE
    /\ sanityCalls = 0

\* adjudicate_claim is not running
AdjudicationIdle ==
    /\ POLICY_RULEBOOK = [n \in {"MVP1"} |->
                            [sum_insured |-> 30, co_payment_percentage |-> 0,
                             sub_limits |-> RuleNames]]
    /\ policy_number = "MVP1"
    /\ line_items = << >>
    /\ net_payable_amount = 30
    /\ AdjudicationInit

Init ==
    /\ AdjudicationInit
    /\ SimilarityIdle
    /\ OrchestrationIdle
    /\ ApplicationIdle
    /\ FusionIdle

\* ---------------------------------------------------------------------
\* Step 0: policy lookup and the initial claim (rules_engine.py:267-299)
\* ---------------------------------------------------------------------

\* variant: POLICY_RULEBOOK.get(policy_number, <some policy>)
PolicyLookupDefault(rulebook, number) ==
    Some(IF number \in DOMAIN rulebook THEN rulebook[number]
         ELSE rulebook[CHOOSE n \in DOMAIN rulebook : TRUE])

\* POLICY_RULEBOOK[policy_number]: the policy, or nothing when the key is
\* missing (KeyError)
PolicyLookup(rulebook, number) ==
    IF number \in DOMAIN rulebook THEN Some(rulebook[number]) ELSE None

\* one entry of initial_adjudicated_items; id is the position on the bill
InitialItem(i, item) ==
    [id |-> i, description |-> item.description, total_amount |-> item.total_amount,
     allowed_amount |-> item.total_amount, disallowed_amount |-> 0, reason |-> Null]

initial_adjudicated_items(items) ==
    [i \in DOMAIN items |-> InitialItem(i, items[i])]

\* AdjudicatedClaim(...) of step 0: total_amount_reimbursed is the keyword
\* the code passes; no total_allowed_amount is given
InitialClaim(items, net_payable) ==
    [adjudicated_line_items |-> initial_adjudicated_items(items),
     total_claimed_amount |-> net_payable,
     total_amount_reimbursed |-> net_payable,
     adjustments_log |-> <<>>,
     sanity_check_result |-> None]

\* ---------------------------------------------------------------------
\* Step 1: IRDAI non-payable filter (rules_engine.py:301-335)
\* ---------------------------------------------------------------------

\* `normalized_item and normalized_item["category"] == "Non-Payable Item"`
IsNonPayable(normalized_item) ==
    normalized_item # Null /\ normalized_item = NP_CATEGORY

identify_non_payable_items(items, norm) ==
    SelectSeq(items, LAMBDA item : IsNonPayable(norm[item.description]))

non_payable_descriptions(items, norm) ==
    {item.description : item \in Range(identify_non_payable_items(items, norm))}

\* body of the loop at rules_engine.py:317-327 for a hit
MarkNonPayable(item) ==
    [item EXCEPT !.allowed_amount = 0,
                 !.disallowed_amount = item.total_amount,
                 !.reason = NP_REASON]

FilterNonPayable(items, np_descriptions) ==
    [i \in DOMAIN items |->
        IF items[i].description \in np_descriptions
        THEN MarkNonPayable(items[i]) ELSE items[i]]

total_disallowed_IRDAI(items, np_descriptions) ==
    SumAllowed(SelectSeq(items, LAMBDA item : item.description \in np_descriptions))

np_hit_names(items, np_descriptions) ==
    {item.description : item \in {it \in Range(items) : it.description \in np_descriptions}}

LogEntry(kind, names, pct, amount) ==
    [kind |-> kind, names |-> names, pct |-> pct, amount |-> amount]

\* the log entry of rules_engine.py:330-335; sorted(set(names)) is kept as the set
IrdaiLog(items, np_descriptions) ==
    IF total_disallowed_IRDAI(items, np_descriptions) > 0
    THEN << LogEntry("irdai", np_hit_names(items, np_descriptions), 0,
                     total_disallowed_IRDAI(items, np_descriptions)) >>
    ELSE << >>

\* ---------------------------------------------------------------------
\* Step 2: rule matching (rules_engine.py:337-353, rules_utils.py:266-299)
\* ---------------------------------------------------------------------

\* rules_engine.py:346-350: items whose status is not "Disallowed"
ItemsToProcess(items) ==
    SelectSeq(items, LAMBDA item : status(item) # "Disallowed")

\* rules_utils.py:297-299: a falsy response or rule name becomes None
get_rule_match_with_llm(response) ==
    IF response # Null /\ response # "" THEN response ELSE Null

\* variant: the exception is swallowed (return_exceptions=True, except: pass)
PropagatesNever(raised) == FALSE

\* does an exception of an awaited oracle call leave adjudicate_claim?
\* (asyncio.gather without return_exceptions; no try/except around the awaits)
Propagates(raised) == raised

\* variant: results collected in completion order (asyncio.as_completed)
GatherStoreCompletionOrder(slots, k, result) ==
    LET free == {h \in DOMAIN slots : slots[h] = None}
        first == CHOOSE h \in free : \A g \in free : h <= g
    IN  [slots EXCEPT ![first] = result]

\* asyncio.gather returns one result per awaitable, in the order given
GatherStore(slots, k, result) == [slots EXCEPT ![k] = result]

\* variant: the caller resumes at the first finished awaitable
\* (asyncio.wait with FIRST_COMPLETED)
GatherJoinedAny(slots) == slots = << >> \/ \E k \in DOMAIN slots : slots[k] # None

\* asyncio.gather resumes the caller when every awaitable has finished
GatherJoined(slots) == \A k \in DOMAIN slots : slots[k] # None

StartPolicyNotFound ==
    /\ pc = "start"
    /\ PolicyLookup(POLICY_RULEBOOK, policy_number) = None
    /\ pc' = "failed"
    /\ error' = "KeyError"
    /\ UNCHANGED <<extraction, application, inputs, policy, adjudicated_claim, items_to_process,
                   matched_rule_names, final_adjudicated_items, items_to_update,
                   updated_items, returned, normOut, matchOut, applyOut, sanityOut,
                   normalizeCalls, ruleMatchCalls, ruleApplyCalls, ruleMatchReturned,
                   ruleApplyReturned, aggregationStarted, sanityCalls>>

\* the descriptions on the bill
BillDescriptions == {line_items[i].description : i \in DOMAIN line_items}

\* position of the first item whose normalization raises, 0 if none does
FirstRaising(items, norm) ==
    IF \E i \in DOMAIN items : norm[items[i].description] = Raise
    THEN CHOOSE i \in DOMAIN items :
            /\ norm[items[i].description] = Raise
            /\ \A j \in 1..(i - 1) : norm[items[j].description] # Raise
    ELSE 0

\* step 0, then identify_non_payable_items raises on some description
StartNormalizationRaises ==
    /\ pc = "start"
    /\ PolicyLookup(POLICY_RULEBOOK, policy_number) # None
    /\ \E norm \in [BillDescriptions -> NormResults] :
         /\ FirstRaising(line_items, norm) # 0
         /\ Propagates(TRUE)
         /\ normOut' = norm
         /\ normalizeCalls' = FirstRaising(line_items, norm)
    /\ policy' = PolicyLookup(POLICY_RULEBOOK, policy_number)
    /\ adjudicated_claim' = InitialClaim(line_items, net_payable_amount)
    /\ pc' = "failed"
    /\ error' = "NormalizationError"
    /\ UNCHANGED <<extraction, application, inputs, items_to_process, matched_rule_names,
                   final_adjudicated_items, items_to_update, updated_items, returned,
                   matchOut, applyOut, sanityOut,
                   ruleMatchCalls, ruleApplyCalls, ruleMatchReturned,
                   ruleApplyReturned, aggregationStarted, sanityCalls>>

\* steps 0 and 1 and the creation of the match tasks, up to the first gather
StartFilter ==
    /\ pc = "start"
    /\ PolicyLookup(POLICY_RULEBOOK, policy_number) # None
    /\ \E norm \in [BillDescriptions -> NormResults] :
         /\ FirstRaising(line_items, norm) = 0 \/ ~Propagates(TRUE)
         /\ LET claim0 == InitialClaim(line_items, net_payable_amount)
                items0 == claim0.adjudicated_line_items
                npd    == non_payable_descriptions(items0, norm)
                items1 == FilterNonPayable(items0, npd)
                todo   == ItemsToProcess(items1)
            IN  /\ normOut' = norm
                /\ normalizeCalls' = Len(line_items)
                /\ adjudicated_claim' =
                     [claim0 EXCEPT !.adjudicated_line_items = items1,
                                    !.adjustments_log = IrdaiLog(items0, npd)]
                /\ items_to_process' = todo
                /\ matched_rule_names' = [k \in DOMAIN todo |-> None]
                /\ ruleMatchCalls' =
                     [i \in DOMAIN line_items |->
                        Cardinality({k \in DOMAIN todo : todo[k].id = i})]
    /\ policy' = PolicyLookup(POLICY_RULEBOOK, policy_number)
    /\ pc' = "matching"
    /\ UNCHANGED <<extraction, application, inputs, final_adjudicated_items, items_to_update, updated_items,
                   returned, error, matchOut, applyOut, sanityOut, ruleApplyCalls,
                   ruleMatchReturned, ruleApplyReturned, aggregationStarted, sanityCalls>>

\* one Rule-Match call returns (or raises) and gather stores its result
MatchComplete ==
    /\ pc = "matching"
    /\ \E k \in DOMAIN matched_rule_names, response \in MatchResponses :
         /\ items_to_process[k].id \notin ruleMatchReturned
         /\ LET i == items_to_process[k].id
                raised == (response = Raise)
                result == IF raised THEN Raise ELSE get_rule_match_with_llm(response)
            IN  /\ matchOut' = [matchOut EXCEPT ![i] = result]
                /\ ruleMatchReturned' = ruleMatchReturned \cup {i}
                /\ matched_rule_names' = GatherStore(matched_rule_names, k, Some(result))
                /\ IF raised /\ Propagates(raised)
                   THEN pc' = "failed" /\ error' = "RuleMatchError"
                   ELSE pc' = pc /\ error' = error
    /\ UNCHANGED <<extraction, application, inputs, policy, adjudicated_claim, items_to_process,
                   final_adjudicated_items, items_to_update, updated_items, returned,
                   normOut, applyOut, sanityOut, normalizeCalls, ruleMatchCalls,
                   ruleApplyCalls, ruleApplyReturned, aggregationStarted,
                   sanityCalls>>

\* ---------------------------------------------------------------------
\* Step 3: rule application (rules_engine.py:355-396, rules_utils.py:366-391)
\* ---------------------------------------------------------------------

\* variant: `if rule_name:` without the membership test
RuleAppliesAnyName(rule_name, sub_limits) ==
    rule_name # Null /\ rule_name # "" /\ rule_name # Raise /\ rule_name # NoCall

\* rules_engine.py:367  `if rule_name and rule_name in sub_limits`
RuleApplies(rule_name, sub_limits) ==
    /\ rule_name # Null
    /\ rule_name # ""
    /\ rule_name # Raise
    /\ rule_name \in sub_limits

\* rules_engine.py:365  matched_rule_names[i] if i < len(matched_rule_names) else None
RuleNameAt(names, k) ==
    IF k \in DOMAIN names /\ names[k] # None THEN names[k][1] ELSE Null

\* positions of items_to_process that get an update task
UpdatePositions(todo, names, sub_limits) ==
    {k \in DOMAIN todo : RuleApplies(RuleNameAt(names, k), sub_limits)}

\* items_to_update, in the order of items_to_process
ItemsToUpdate(todo, names, sub_limits) ==
    LET idx == UpdatePositions(todo, names, sub_limits)
        pick[k \in 0..Len(todo)] ==
            IF k = 0 THEN << >>
            ELSE IF k \in idx THEN Append(pick[k - 1], todo[k]) ELSE pick[k - 1]
    IN  pick[Len(todo)]

\* the items appended to final_adjudicated_items by the else branch
ItemsKept(todo, names, sub_limits) ==
    LET idx == UpdatePositions(todo, names, sub_limits)
        pick[k \in 0..Len(todo)] ==
            IF k = 0 THEN << >>
            ELSE IF k \in idx THEN pick[k - 1] ELSE Append(pick[k - 1], todo[k])
    IN  pick[Len(todo)]

\* variant: the agent is invoked whatever the item's status
CallsAgentAlways(item) == TRUE

\* rules_utils.py:370  an item whose status is "Disallowed" goes back unchanged
\* and the agent is not invoked
CallsAgent(item) == status(item) # "Disallowed"

\* rules_utils.py:366-391  the value the coroutine returns for an agent answer
apply_policy_rule_with_llm_tools(item, answer) ==
    IF ~CallsAgent(item) THEN item
    ELSE [id |-> item.id, description |-> item.description,
          total_amount |-> answer.total_amount,
          allowed_amount |-> answer.allowed_amount,
          disallowed_amount |-> answer.disallowed_amount,
          reason |-> answer.reason]

\* the first gather has joined: build the update tasks (rules_engine.py:355-385)
MatchJoin ==
    /\ pc = "matching"
    /\ GatherJoined(matched_rule_names)
    /\ LET sub_limits == policy[1].sub_limits
           upd == ItemsToUpdate(items_to_process, matched_rule_names, sub_limits)
       IN  /\ items_to_update' = upd
           /\ final_adjudicated_items' =
                ItemsKept(items_to_process, matched_rule_names, sub_limits)
           /\ updated_items' = [j \in DOMAIN upd |-> None]
           /\ ruleApplyCalls' =
                [i \in DOMAIN line_items |->
                   Cardinality({j \in DOMAIN upd : upd[j].id = i /\ CallsAgent(upd[j])})]
    /\ pc' = "applying"
    /\ UNCHANGED <<extraction, application, inputs, policy, adjudicated_claim, items_to_process,
                   matched_rule_names, returned, error, normOut, matchOut, applyOut,
                   sanityOut, normalizeCalls, ruleMatchCalls, ruleMatchReturned,
                   ruleApplyReturned, aggregationStarted, sanityCalls>>

\* one Rule-Apply call returns (or raises) and gather stores its result
ApplyComplete ==
    /\ pc = "applying"
    /\ \E j \in DOMAIN updated_items, outcome \in ApplyOutcomes :
         /\ items_to_update[j].id \notin ruleApplyReturned
         /\ LET item == items_to_update[j]
                i == item.id
            IN  /\ applyOut' = [applyOut EXCEPT ![i] = Some(outcome)]
                /\ ruleApplyReturned' = ruleApplyReturned \cup {i}
                /\ IF outcome.raised /\ Propagates(outcome.raised)
                   THEN /\ pc' = "failed"
                        /\ error' = "RuleApplyError"
                        /\ updated_items' = updated_items
                   ELSE /\ pc' = pc
                        /\ error' = error
                        /\ updated_items' =
                             GatherStore(updated_items, j,
                                Some(IF outcome.raised THEN item
                                     ELSE apply_policy_rule_with_llm_tools(item, outcome.value)))
    /\ UNCHANGED <<extraction, application, inputs, policy, adjudicated_claim, items_to_process,
                   matched_rule_names, final_adjudicated_items, items_to_update,
                   returned, normOut, matchOut, sanityOut, normalizeCalls,
                   ruleMatchCalls, ruleApplyCalls, ruleMatchReturned,
                   aggregationStarted, sanityCalls>>

\* variant: the items step 1 marked, told by their reason
DisallowedItemsByReason(items) ==
    SelectSeq(items, LAMBDA item : item.reason = NP_REASON)

\* rules_engine.py:389-393: the items of step 1 whose status is "Disallowed"
DisallowedItems(items) ==
    SelectSeq(items, LAMBDA item : status(item) = "Disallowed")

\* the results of the second gather, in slot order
RECURSIVE GatherResults(_)
GatherResults(slots) ==
    IF slots = << >> THEN << >>
    ELSE Head(slots) \o GatherResults(Tail(slots))

\* rules_engine.py:381-396: kept items, then updated items, then the
\* disallowed items of step 1
FinalItems(kept, slots, step1_items) ==
    kept \o GatherResults(slots) \o DisallowedItems(step1_items)

\* ---------------------------------------------------------------------
\* Step 4: aggregation and claim-level rules (rules_engine.py:398-441)
\* ---------------------------------------------------------------------

RECURSIVE SumDisallowed(_)
SumDisallowed(items) ==
    IF items = << >> THEN 0
    ELSE Head(items).disallowed_amount + SumDisallowed(Tail(items))

\* rules_engine.py:399-402
total_disallowed_policy(items) ==
    SumDisallowed(SelectSeq(items,
        LAMBDA itm : status(itm) # "Disallowed" /\ itm.reason # NP_REASON))

PolicyLog(items) ==
    IF total_disallowed_policy(items) > 0
    THEN << LogEntry("policy", {}, 0, total_disallowed_policy(items)) >>
    ELSE << >>

\* rules_engine.py:421-425
co_payment_amount(final_total_allowed, co_payment_percentage) ==
    IF co_payment_percentage > 0 /\ final_total_allowed > 0
    THEN (final_total_allowed * co_payment_percentage) \div 100
    ELSE 0

CoPayLog(final_total_allowed, co_payment_percentage) ==
    IF co_payment_percentage > 0 /\ final_total_allowed > 0
    THEN << LogEntry("co-payment", {}, co_payment_percentage,
                     co_payment_amount(final_total_allowed, co_payment_percentage)) >>
    ELSE << >>

\* variant: the co-payment is logged but not subtracted
amount_before_copay(final_total_allowed, co_payment_percentage) ==
    final_total_allowed

\* rules_engine.py:430
amount_after_copay(final_total_allowed, co_payment_percentage) ==
    final_total_allowed - co_payment_amount(final_total_allowed, co_payment_percentage)

\* variant: the cap is left out
final_payable_uncapped(after_copay, sum_insured) == after_copay

\* rules_engine.py:433
final_payable(after_copay, sum_insured) == Min(after_copay, sum_insured)

\* rules_engine.py:435-439
CapLog(after_copay, sum_insured) ==
    IF final_payable(after_copay, sum_insured) < after_copay
    THEN << LogEntry("sum-insured cap", {}, 0, sum_insured) >>
    ELSE << >>

\* variant: the log is rebuilt from the entries of this step alone
AggregateLogRebuilt(claim, items, pol) ==
    LET final_total_allowed == SumAllowed(items)
        after == amount_after_copay(final_total_allowed, pol.co_payment_percentage)
    IN  [claim EXCEPT
           !.adjudicated_line_items = items,
           !.adjustments_log =
               PolicyLog(items)
               \o CoPayLog(final_total_allowed, pol.co_payment_percentage)
               \o CapLog(after, pol.sum_insured),
           !.total_amount_reimbursed = final_payable(after, pol.sum_insured)]

\* rules_engine.py:396-441 on the claim object
Aggregate(claim, items, pol) ==
    LET final_total_allowed == SumAllowed(items)
        after == amount_after_copay(final_total_allowed, pol.co_payment_percentage)
    IN  [claim EXCEPT
           !.adjudicated_line_items = items,
           !.adjustments_log =
               claim.adjustments_log
               \o PolicyLog(items)
               \o CoPayLog(final_total_allowed, pol.co_payment_percentage)
               \o CapLog(after, pol.sum_insured),
           !.total_amount_reimbursed = final_payable(after, pol.sum_insured)]

\* the second gather has joined: reassemble the list, steps 4a-4c, and the
\* call of the Sanity oracle (rules_engine.py:386-446)
ApplyJoin ==
    /\ pc = "applying"
    /\ GatherJoined(updated_items)
    /\ adjudicated_claim' =
         Aggregate(adjudicated_claim,
                   FinalItems(final_adjudicated_items, updated_items,
                              adjudicated_claim.adjudicated_line_items),
                   policy[1])
    /\ final_adjudicated_items' =
         FinalItems(final_adjudicated_items, updated_items,
                    adjudicated_claim.adjudicated_line_items)
    /\ aggregationStarted' = TRUE
    /\ sanityCalls' = sanityCalls + 1
    /\ pc' = "sanity"
    /\ UNCHANGED <<extraction, application, inputs, policy, items_to_process, matched_rule_names,
                   items_to_update, updated_items, returned, error, normOut,
                   matchOut, applyOut, sanityOut, normalizeCalls, ruleMatchCalls,
                   ruleApplyCalls, ruleMatchReturned, ruleApplyReturned>>

\* ---------------------------------------------------------------------
\* Step 5: sanity check (rules_engine.py:443-450, rules_utils.py:406-469)
\* ---------------------------------------------------------------------

\* variant: a verdict "not reasonable" also withdraws the payable amount
AttachSanityResultAndReject(claim, sanity_result) ==
    IF sanity_result # None /\ ~sanity_result[1].is_reasonable
    THEN [claim EXCEPT !.sanity_check_result = sanity_result,
                       !.total_amount_reimbursed = 0]
    ELSE [claim EXCEPT !.sanity_check_result = sanity_result]

\* rules_engine.py:447  adjudicated_claim.sanity_check_result = sanity_result
AttachSanityResult(claim, sanity_result) ==
    [claim EXCEPT !.sanity_check_result = sanity_result]

\* the Sanity oracle answers; its verdict is attached and the claim returned
SanityComplete ==
    /\ pc = "sanity"
    /\ \E outcome \in SanityOutcomes :
         /\ sanityOut' = Some(outcome)
         /\ IF outcome.raised /\ Propagates(outcome.raised)
            THEN /\ pc' = "failed"
                 /\ error' = "SanityError"
                 /\ UNCHANGED <<adjudicated_claim, returned>>
            ELSE /\ pc' = "done"
                 /\ error' = error
                 /\ adjudicated_claim' =
                      AttachSanityResult(adjudicated_claim,
                         IF outcome.raised THEN None ELSE Some(outcome.value))
                 /\ returned' = Some(adjudicated_claim')
    /\ UNCHANGED <<extraction, application, inputs, policy, items_to_process, matched_rule_names,
                   final_adjudicated_items, items_to_update, updated_items,
                   normOut, matchOut, applyOut, normalizeCalls, ruleMatchCalls,
                   ruleApplyCalls, ruleMatchReturned, ruleApplyReturned,
                   aggregationStarted, sanityCalls>>

Next ==
    \/ StartPolicyNotFound
    \/ StartNormalizationRaises
    \/ StartFilter
    \/ MatchComplete
    \/ MatchJoin
    \/ ApplyComplete
    \/ ApplyJoin
    \/ SanityComplete

Spec == Init /\ [][Next]_vars

\* the steps adjudicate_claim takes by itself once the event loop resumes
\* it: the start of the run and the continuation after each gather
CoroutineStep ==
    \/ StartPolicyNotFound
    \/ StartNormalizationRaises
    \/ StartFilter
    \/ MatchJoin
    \/ ApplyJoin

\* The event loop resumes a runnable coroutine, so CoroutineStep is weakly
\* fair.  The completion of an awaited oracle call (MatchComplete,
\* ApplyComplete, SanityComplete) is up to the remote service: no await of
\* rules_engine.py:250-450 or rules_utils.py:266-299, 366-391 is given a
\* timeout, so a call may stay pending forever and no fairness is assumed.
LiveSpec == Spec /\ WF_vars(CoroutineStep)

\* ---------------------------------------------------------------------
\* One call of apply_policy_rule_with_llm_tools (rules_utils.py:366-391)
\* ---------------------------------------------------------------------

\* the items a caller can hand over: any AdjudicatedLineItem the schema
\* admits (pydantic_schemas.py:71-104 relates no two amounts)
AdjudicatedItems ==
    [id : {1}, description : Descriptions, total_amount : ItemAmounts,
     allowed_amount : ItemAmounts, disallowed_amount : ItemAmounts,
     reason : {Null, NP_REASON}]

\* sub-limit rules as the rulebook writes them (data/master_data.py:214-222)
PolicyRules ==
    { [type |-> "percentage_of_sum_insured", value |-> 1],
      [type |-> "fixed", value |-> 10] }

\* the call apply_policy_rule_with_llm_tools(item, policy_rule, sum_insured)
ApplyInit ==
    /\ AdjudicationIdle
    /\ SimilarityIdle
    /\ OrchestrationIdle
    /\ FusionIdle
    /\ apc = "called"
    /\ apply_item \in AdjudicatedItems
    /\ apply_policy_rule \in PolicyRules
    /\ apply_sum_insured \in SumInsuredVals
    /\ agent_calls = 0
    /\ formatter_calls = 0
    /\ apply_returned = None

\* rules_utils.py:370-371  `if item.status == "Disallowed": return item`
ReturnItem ==
    /\ apc = "called"
    /\ ~CallsAgent(apply_item)
    /\ apply_returned' = Some(apply_item)
    /\ apc' = "returned"
    /\ UNCHANGED <<adjudication, extraction, apply_item, apply_policy_rule,
                   apply_sum_insured, agent_calls, formatter_calls>>

\* rules_utils.py:373-382  the prompt is built and the agent invoked
InvokeAgent ==
    /\ apc = "called"
    /\ CallsAgent(apply_item)
    /\ agent_calls' = agent_calls + 1
    /\ apc' = "agent"
    /\ UNCHANGED <<adjudication, extraction, apply_item, apply_policy_rule,
                   apply_sum_insured, formatter_calls, apply_returned>>

\* rules_utils.py:382-386  the agent answers and the formatter is invoked,
\* or the agent raises and the exception is re-raised (388-390)
AgentComplete ==
    /\ apc = "agent"
    /\ \E raised \in BOOLEAN :
         IF raised
         THEN apc' = "raised" /\ formatter_calls' = formatter_calls
         ELSE apc' = "formatter" /\ formatter_calls' = formatter_calls + 1
    /\ UNCHANGED <<adjudication, extraction, apply_item, apply_policy_rule,
                   apply_sum_insured, agent_calls, apply_returned>>

\* rules_utils.py:386-390  the formatter's item is returned, or it raises
FormatterComplete ==
    /\ apc = "formatter"
    /\ \E outcome \in ApplyOutcomes :
         IF outcome.raised
         THEN apc' = "raised" /\ apply_returned' = apply_returned
         ELSE /\ apc' = "returned"
              /\ apply_returned' =
                   Some(apply_policy_rule_with_llm_tools(apply_item, outcome.value))
    /\ UNCHANGED <<adjudication, extraction, apply_item, apply_policy_rule,
                   apply_sum_insured, agent_calls, formatter_calls>>

ApplyNext ==
    \/ ReturnItem
    \/ InvokeAgent
    \/ AgentComplete
    \/ FormatterComplete

ApplySpec == ApplyInit /\ [][ApplyNext]_vars

\* ---------------------------------------------------------------------
\* Properties
\* ---------------------------------------------------------------------

Done == pc = "done"

\* the claim adjudicate_claim returned (in states where it returned)
ReturnedClaim == returned[1]

ThePolicy == policy[1]

\* C1: once the sum-insured step has run, the final payable amount recorded
\* on the claim (attribute total_amount_reimbursed) is at most the policy's
\* sum_insured, for every rulebook, bill and oracle answer.
C1_FinalPayableWithinSumInsured ==
    aggregationStarted =>
        adjudicated_claim.total_amount_reimbursed <= ThePolicy.sum_insured

\* a returned claim whose allowed total after co-payment exceeded the sum
\* insured: the cap entry is in the log and the recorded amount is the cap
C1_Witness ==
    /\ Done
    /\ \E e \in Range(ReturnedClaim.adjustments_log) : e.kind = "sum-insured cap"
    /\ ReturnedClaim.total_amount_reimbursed = ThePolicy.sum_insured
    /\ SumAllowed(ReturnedClaim.adjudicated_line_items) > ThePolicy.sum_insured

\* C2: every AdjudicatedLineItem of the returned claim satisfies
\* allowed_amount + disallowed_amount = total_amount.
C2_AmountsAddUp ==
    Done =>
        \A k \in DOMAIN ReturnedClaim.adjudicated_line_items :
            LET item == ReturnedClaim.adjudicated_line_items[k]
            IN  item.allowed_amount + item.disallowed_amount = item.total_amount

\* C3: the returned claim's total_allowed_amount field equals
\* final_payable = min(sum of allowed amounts after co-payment, sum_insured).
C3_TotalAllowedIsFinalPayable ==
    Done =>
        /\ "total_allowed_amount" \in DOMAIN ReturnedClaim
        /\ ReturnedClaim.total_allowed_amount =
             Min(amount_after_copay(SumAllowed(ReturnedClaim.adjudicated_line_items),
                                    ThePolicy.co_payment_percentage),
                 ThePolicy.sum_insured)

\* the Normalization oracle classified input item i as non-payable
ClassifiedNonPayable(i) ==
    /\ line_items[i].description \in DOMAIN normOut
    /\ normOut[line_items[i].description] = NP_CATEGORY

\* the entries of a list of adjudicated items that stand for input item i
EntriesOf(items, i) == {k \in DOMAIN items : items[k].id = i}

\* the item of step 0 for input item i
Untouched(i) == InitialItem(i, line_items[i])

\* C4: an item is disallowed by the non-payable filter iff the Normalization
\* oracle gives the category "Non-Payable Item" for its description, and
\* every item so disallowed has allowed_amount = 0, disallowed_amount =
\* total_amount and a reason in the returned claim.
C4_NonPayableIffClassified ==
    /\ pc = "matching" =>
         \A k \in DOMAIN adjudicated_claim.adjudicated_line_items :
            LET item == adjudicated_claim.adjudicated_line_items[k]
            IN  (item = MarkNonPayable(Untouched(item.id)))
                    <=> ClassifiedNonPayable(item.id)
    /\ Done =>
         \A i \in ItemIds : ClassifiedNonPayable(i) =>
            \E k \in EntriesOf(ReturnedClaim.adjudicated_line_items, i) :
               LET item == ReturnedClaim.adjudicated_line_items[k]
               IN  /\ item.allowed_amount = 0
                   /\ item.disallowed_amount = item.total_amount
                   /\ item.reason # Null

\* C5: Rule-Match is called for an item iff the non-payable filter did not
\* disallow it: a non-payable item gets no Rule-Match and no Rule-Apply call
\* and keeps its amounts and reason, every other item gets exactly one
\* Rule-Match call.
C5_RuleMatchIffNotNonPayable ==
    /\ pc \in {"matching", "applying", "sanity", "done"} =>
         \A i \in ItemIds :
            /\ ruleMatchCalls[i] = (IF ClassifiedNonPayable(i) THEN 0 ELSE 1)
            /\ ClassifiedNonPayable(i) => ruleApplyCalls[i] = 0
    /\ Done =>
         \A i \in ItemIds : ClassifiedNonPayable(i) =>
            \E k \in EntriesOf(ReturnedClaim.adjudicated_line_items, i) :
               ReturnedClaim.adjudicated_line_items[k] = MarkNonPayable(Untouched(i))

\* some oracle call of the run raised
AnyOracleRaised ==
    \/ \E d \in DOMAIN normOut : normOut[d] = Raise
    \/ \E i \in ItemIds : matchOut[i] = Raise
    \/ \E i \in ItemIds : applyOut[i] # None /\ applyOut[i][1].raised
    \/ sanityOut # None /\ sanityOut[1].raised

\* C6: if the Normalization call, a Rule-Match call, a Rule-Apply call or
\* the Sanity call raises, adjudicate_claim raises and returns no claim.
C6_FailFast ==
    AnyOracleRaised => (pc = "failed" /\ error # Null /\ returned = None)

\* a Rule-Apply call raised after another Rule-Apply call of the same run
\* had returned a value
C6_Witness ==
    /\ pc = "failed"
    /\ error = "RuleApplyError"
    /\ \E i \in ItemIds : applyOut[i] # None /\ ~applyOut[i][1].raised
    /\ returned = None

\* C7: no Rule-Apply call is started before every Rule-Match call of the
\* run has returned, and aggregation does not start before every Rule-Apply
\* call has returned.
C7_Barriers ==
    /\ (\E i \in ItemIds : ruleApplyCalls[i] > 0) =>
          \A i \in ItemIds : ruleMatchCalls[i] > 0 => i \in ruleMatchReturned
    /\ aggregationStarted =>
          /\ \A i \in ItemIds : ruleMatchCalls[i] > 0 => i \in ruleMatchReturned
          /\ \A i \in ItemIds : ruleApplyCalls[i] > 0 => i \in ruleApplyReturned

\* two Rule-Match calls have returned, two Rule-Apply calls were started
\* after them, and the aggregation ran after both had returned
C7_Witness ==
    /\ aggregationStarted
    /\ Cardinality({i \in ItemIds : ruleMatchCalls[i] > 0}) >= 2
    /\ Cardinality({i \in ItemIds : ruleApplyCalls[i] > 0}) >= 2
    /\ Cardinality(ruleApplyReturned) >= 2

\* the items after step 1, computed from the bill and the Normalization answers
FilteredItems ==
    FilterNonPayable(initial_adjudicated_items(line_items),
                     non_payable_descriptions(initial_adjudicated_items(line_items), normOut))

\* input item i was handed to Rule-Apply: it was eligible and its own
\* Rule-Match call named a rule of the rulebook
HandedToRuleApply(item) ==
    /\ status(item) # "Disallowed"
    /\ matchOut[item.id] \in ThePolicy.sub_limits

\* the item as the answer of its own Rule-Apply call gives it (the item
\* itself while that call has not answered)
OwnAnswer(item) ==
    IF applyOut[item.id] = None THEN item
    ELSE LET answer == applyOut[item.id][1].value
         IN  [item EXCEPT !.total_amount = answer.total_amount,
                          !.allowed_amount = answer.allowed_amount,
                          !.disallowed_amount = answer.disallowed_amount,
                          !.reason = answer.reason]

\* the item list that pairs every item with the answers of its own calls:
\* the eligible items left alone, then the items replaced by the answer of
\* their own Rule-Apply call, then the items disallowed in step 1, each
\* group in bill order
ExpectedItems ==
    LET kept == SelectSeq(FilteredItems,
                    LAMBDA item : status(item) # "Disallowed" /\ ~HandedToRuleApply(item))
        handed == SelectSeq(FilteredItems, HandedToRuleApply)
        replaced == [k \in DOMAIN handed |-> OwnAnswer(handed[k])]
        disallowed == SelectSeq(FilteredItems, LAMBDA item : status(item) = "Disallowed")
    IN  kept \o replaced \o disallowed

\* the claim determined by the bill, the policy and the oracle answers alone
ExpectedClaim ==
    LET items0 == initial_adjudicated_items(line_items)
        claim1 == [InitialClaim(line_items, net_payable_amount) EXCEPT
                     !.adjustments_log =
                         IrdaiLog(items0, non_payable_descriptions(items0, normOut))]
    IN  [Aggregate(claim1, ExpectedItems, ThePolicy) EXCEPT
           !.sanity_check_result = Some(sanityOut[1].value)]

\* C8: for fixed oracle answers the returned claim (items, order, totals,
\* log) is the same for every completion order of the concurrent Rule-Match
\* and Rule-Apply calls; each item is paired with the answer of its own
\* Rule-Match call and replaced by the answer of its own Rule-Apply call.
C8_OrderInsensitive ==
    Done => ReturnedClaim = ExpectedClaim

\* a returned claim with two items replaced by different Rule-Apply answers
C8_Witness ==
    /\ Done
    /\ \E i, j \in ItemIds :
          /\ i < j
          /\ applyOut[i] # None /\ applyOut[j] # None
          /\ applyOut[i] # applyOut[j]
          /\ \E k \in EntriesOf(ReturnedClaim.adjudicated_line_items, i) :
                ReturnedClaim.adjudicated_line_items[k].allowed_amount
                    = applyOut[i][1].value.allowed_amount

NoOracleCalled ==
    /\ normalizeCalls = 0
    /\ \A i \in ItemIds : ruleMatchCalls[i] = 0 /\ ruleApplyCalls[i] = 0
    /\ ruleMatchReturned = {} /\ ruleApplyReturned = {}
    /\ sanityCalls = 0

\* C9: when policy_number is not a key of the rulebook, adjudicate_claim
\* fails, and no Normalization, Rule-Match, Rule-Apply or Sanity call is made.
C9_UnknownPolicyFailsFirst ==
    policy_number \notin DOMAIN POLICY_RULEBOOK =>
        /\ NoOracleCalled
        /\ returned = None
        /\ pc # "start" => (pc = "failed" /\ error = "KeyError")

\* the run of a bill with items under an unknown policy number has failed
C9_Witness ==
    /\ policy_number \notin DOMAIN POLICY_RULEBOOK
    /\ line_items # << >>
    /\ pc = "failed"
    /\ error = "KeyError"

\* input item i is eligible: the non-payable filter did not disallow it
Eligible(i) == ~ClassifiedNonPayable(i)

\* the Rule-Match result of input item i is a rule of the rulebook
MatchedInRulebook(i) ==
    /\ matchOut[i] \notin {NoCall, Null, Raise}
    /\ matchOut[i] \in ThePolicy.sub_limits

\* C10: Rule-Apply is called for an eligible item iff its Rule-Match result
\* is non-null and a key of sub_limits; every other eligible item is in the
\* returned claim unchanged: allowed_amount = total_amount,
\* disallowed_amount = 0, reason null.
C10_RuleApplyIffMatched ==
    /\ pc \in {"applying", "sanity", "done"} =>
         \A i \in ItemIds : Eligible(i) =>
            (ruleApplyCalls[i] = (IF MatchedInRulebook(i) THEN 1 ELSE 0))
    /\ Done =>
         \A i \in ItemIds : (Eligible(i) /\ ~MatchedInRulebook(i)) =>
            /\ Cardinality(EntriesOf(ReturnedClaim.adjudicated_line_items, i)) = 1
            /\ \A k \in EntriesOf(ReturnedClaim.adjudicated_line_items, i) :
                  LET item == ReturnedClaim.adjudicated_line_items[k]
                  IN  /\ item = Untouched(i)
                      /\ item.allowed_amount = item.total_amount
                      /\ item.disallowed_amount = 0
                      /\ item.reason = Null

\* a returned claim with an eligible item whose Rule-Match answer is outside
\* the rulebook, next to an item that went through Rule-Apply
C10_Witness ==
    /\ Done
    /\ \E i, j \in ItemIds :
          /\ Eligible(i) /\ matchOut[i] = "Unknown Rule"
          /\ ruleApplyCalls[i] = 0
          /\ Eligible(j) /\ ruleApplyCalls[j] = 1

\* the entries of one kind in an adjustments log
EntriesOfKind(log, kind) == {k \in DOMAIN log : log[k].kind = kind}

\* C11: co-payment is deducted iff co_payment_percentage > 0 and the sum of
\* allowed amounts over the final item list is > 0; the deducted amount is
\* that sum * percentage / 100, it is subtracted before the comparison with
\* sum_insured, and exactly one co-payment log entry is appended when it is
\* deducted (none when it is not).
C11_CoPayment ==
    aggregationStarted =>
        LET claim == adjudicated_claim
            total == SumAllowed(claim.adjudicated_line_items)
            pct == ThePolicy.co_payment_percentage
            deducted == pct > 0 /\ total > 0
            copay == IF deducted THEN (total * pct) \div 100 ELSE 0
            entries == EntriesOfKind(claim.adjustments_log, "co-payment")
        IN  /\ Cardinality(entries) = (IF deducted THEN 1 ELSE 0)
            /\ \A k \in entries :
                  /\ claim.adjustments_log[k].pct = pct
                  /\ claim.adjustments_log[k].amount * 100 = total * pct
            /\ claim.total_amount_reimbursed =
                  Min(total - copay, ThePolicy.sum_insured)

\* a returned claim whose co-payment was deducted and whose amount after
\* co-payment was then cut to the sum insured
C11_Witness ==
    /\ Done
    /\ EntriesOfKind(ReturnedClaim.adjustments_log, "co-payment") # {}
    /\ EntriesOfKind(ReturnedClaim.adjustments_log, "sum-insured cap") # {}
    /\ ReturnedClaim.total_amount_reimbursed = ThePolicy.sum_insured
    /\ ThePolicy.sum_insured < SumAllowed(ReturnedClaim.adjudicated_line_items)

\* log is an initial part of log2
IsPrefix(log, log2) ==
    /\ Len(log) <= Len(log2)
    /\ \A k \in DOMAIN log : log2[k] = log[k]

\* the stage that writes an entry of this kind
KindRank(kind) ==
    CASE kind = "irdai" -> 1
      [] kind = "policy" -> 2
      [] kind = "co-payment" -> 3
      [] kind = "sum-insured cap" -> 4

\* the entries of a log are of increasing stage: no kind twice, stage order
LogOrdered(log) ==
    \A j, k \in DOMAIN log : j < k => KindRank(log[j].kind) < KindRank(log[k].kind)

\* C12: in every run of adjudicate_claim the adjustments log only grows: an
\* entry once appended is never removed or changed, each of the four kinds
\* of entry (non-payable, policy sub-limits, co-payment, sum-insured cap)
\* appears at most once, and the entries present appear in that order.
C12_LogAppendOnly ==
    /\ [][IsPrefix(adjudicated_claim.adjustments_log,
                   adjudicated_claim'.adjustments_log)]_vars
    /\ [](LogOrdered(adjudicated_claim.adjustments_log))

\* a returned claim whose log holds a non-payable entry of step 1 followed
\* by a policy entry and a co-payment entry of step 4
C12_Witness ==
    /\ Done
    /\ Len(ReturnedClaim.adjustments_log) = 3
    /\ ReturnedClaim.adjustments_log[1].kind = "irdai"
    /\ ReturnedClaim.adjustments_log[3].kind = "co-payment"

\* the items of a list that a Rule-Apply call of the run returned
RuleAppliedItems(items) ==
    SelectSeq(items,
        LAMBDA item : item.id \in ruleApplyReturned /\ ruleApplyCalls[item.id] > 0)

\* C13: whenever the Rule-Apply results disallow a positive amount in total,
\* a policy sub-limit log entry is appended whose amount is the sum of
\* disallowed_amount over all rule-applied items, those disallowed in full as
\* well as those allowed in part; amounts disallowed by the non-payable
\* filter are not counted in it.
C13_PolicyLogCountsAllRuleApplied ==
    aggregationStarted =>
        LET claim == adjudicated_claim
            total == SumDisallowed(RuleAppliedItems(claim.adjudicated_line_items))
            entries == EntriesOfKind(claim.adjustments_log, "policy")
        IN  total > 0 =>
               /\ Cardinality(entries) = 1
               /\ \A k \in entries : claim.adjustments_log[k].amount = total

\* the claim with its sanity_check_result left out of the comparison
WithoutSanityResult(claim) == [claim EXCEPT !.sanity_check_result = None]

\* C14: the Sanity oracle is called exactly once per successful run, after
\* the final payable amount is recorded, and for every verdict it returns
\* the claim's line items, totals and adjustments log are left unchanged:
\* only sanity_check_result is set.
C14_SanityIsAdvisory ==
    /\ [](sanityCalls <= 1)
    /\ [](sanityCalls > 0 => aggregationStarted)
    /\ [](Done => /\ sanityCalls = 1
                  /\ ReturnedClaim.sanity_check_result = Some(sanityOut[1].value))
    /\ [][pc = "sanity" =>
            WithoutSanityResult(adjudicated_claim') =
                WithoutSanityResult(adjudicated_claim)]_vars

\* a returned claim with a positive payable amount and a log entry, whose
\* verdict is "not reasonable" with a flag
C14_Witness ==
    /\ Done
    /\ ~ReturnedClaim.sanity_check_result[1].is_reasonable
    /\ ReturnedClaim.sanity_check_result[1].flags # {}
    /\ ReturnedClaim.total_amount_reimbursed > 0
    /\ ReturnedClaim.adjustments_log # << >>

\* C25: every item of the returned claim has allowed_amount >= 0 and
\* disallowed_amount >= 0, whatever the sign of the input item's
\* total_amount.
C25_AmountsNonNegative ==
    Done =>
        \A k \in DOMAIN ReturnedClaim.adjudicated_line_items :
            LET item == ReturnedClaim.adjudicated_line_items[k]
            IN  item.allowed_amount >= 0 /\ item.disallowed_amount >= 0

\* C29: the adjudicated_line_items of the returned claim hold exactly one
\* entry for each input line item: none is dropped and none appears twice,
\* for every mix of non-payable, rule-matched and unmatched items and of
\* zero or negative totals.
C29_OneEntryPerItem ==
    Done =>
        /\ Len(ReturnedClaim.adjudicated_line_items) = Len(line_items)
        /\ \A i \in DOMAIN line_items : Cardinality(EntriesOf(ReturnedClaim.adjudicated_line_items, i)) = 1

\* a returned claim of two items: one classified non-payable whose total is
\* zero or negative, the other handed to the rule-application agent
C29_Witness ==
    /\ Done
    /\ \E i, j \in DOMAIN line_items :
         /\ i # j
         /\ line_items[i].total_amount <= 0
         /\ IsNonPayable(normOut[line_items[i].description])
         /\ ruleApplyCalls[j] = 1

Ended == pc \in {"done", "failed"}

\* C26: adjudicate_claim enforces one overall deadline per claim: even when
\* some oracle call of the run never returns, the run ends (by failing the
\* whole claim), so every run eventually returns or raises.
C26_RunEnds == <>Ended

\* C27: apply_policy_rule_with_llm_tools, given an item whose status is
\* "Disallowed", returns that same item with every field unchanged and calls
\* neither the rule-application agent nor the formatter, for every rule and
\* sum insured.
C27_DisallowedItemReturnedAsIs ==
    status(apply_item) = "Disallowed" =>
        /\ agent_calls = 0
        /\ formatter_calls = 0
        /\ apc \in {"called", "returned"}
        /\ apc = "returned" => apply_returned = Some(apply_item)

\* the call has returned for an item with allowed_amount 0 and a non-zero
\* disallowed_amount, under a fixed-limit rule
C27_Witness ==
    /\ apc = "returned"
    /\ status(apply_item) = "Disallowed"
    /\ apply_item.allowed_amount = 0
    /\ apply_item.disallowed_amount # 0
    /\ apply_policy_rule.type = "fixed"
    /\ apply_returned = Some(apply_item)

\* =====================================================================
\* Reconciliation of two extraction payloads (app/value_extractor.py)
\*
\* A payload is the JSON object a provider returns: seven header fields and
\* a list of line items, every field a record [value, confidence].  A value
\* is Optional (None is JSON null).  Confidences are hundredths (0.7 is 70),
\* numbers are tenths (2.5 is 25), a similarity score is the fraction
\* <<numerator, denominator>> that the code computes as a float.
\* =====================================================================

\* longest list of line items in a provider's payload
MaxLineItems == 2

\* the strings of the model: descriptions and string header values
Texts ==
    {"", "SGPT", "sgpt.", "Pathology Investigation - SGPT", "ECG Charge", "ECG Charges"}

\* value_extractor.py:135-146, tabulated on Texts and on its own results
_normalize_text(s) ==
    CASE s = "" -> ""
      [] s = "SGPT" -> "sgpt"
      [] s = "sgpt." -> "sgpt"
      [] s = "Pathology Investigation - SGPT" -> "pathology investigation - sgpt"
      [] s = "ECG Charge" -> "ecg charge"
      [] s = "ECG Charges" -> "ecg charges"
      [] s = "ecg charge" -> "ecg charge"
      [] s = "ecg charges" -> "ecg charges"
      [] s = "pathology investigation - sgpt" -> "pathology investigation - sgpt"
      [] s = "sgpt" -> "sgpt"

\* set(na.split()) of a normalized string (value_extractor.py:219-220)
TokenSet(n) ==
    CASE n = "" -> {}
      [] n = "ecg charge" -> {"charge", "ecg"}
      [] n = "ecg charges" -> {"charges", "ecg"}
      [] n = "pathology investigation - sgpt" -> {"-", "investigation", "pathology", "sgpt"}
      [] n = "sgpt" -> {"sgpt"}

\* value_extractor.py:149-155 on normalized strings: 2 * (matched characters)
\* over the summed lengths of the two sorted token strings, as
\* difflib.SequenceMatcher(None, ta, tb).ratio() gives it; 1 when both are empty
_fuzzy_ratio(a, b) ==
    CASE a = "" /\ b = "" -> <<1, 1>>
      [] a = "" /\ b = "ecg charge" -> <<0, 10>>
      [] a = "" /\ b = "ecg charges" -> <<0, 11>>
      [] a = "" /\ b = "pathology investigation - sgpt" -> <<0, 30>>
      [] a = "" /\ b = "sgpt" -> <<0, 4>>
      [] a = "ecg charge" /\ b = "" -> <<0, 10>>
      [] a = "ecg charge" /\ b = "ecg charge" -> <<20, 20>>
      [] a = "ecg charge" /\ b = "ecg charges" -> <<20, 21>>
      [] a = "ecg charge" /\ b = "pathology investigation - sgpt" -> <<8, 40>>
      [] a = "ecg charge" /\ b = "sgpt" -> <<2, 14>>
      [] a = "ecg charges" /\ b = "" -> <<0, 11>>
      [] a = "ecg charges" /\ b = "ecg charge" -> <<20, 21>>
      [] a = "ecg charges" /\ b = "ecg charges" -> <<22, 22>>
      [] a = "ecg charges" /\ b = "pathology investigation - sgpt" -> <<8, 41>>
      [] a = "ecg charges" /\ b = "sgpt" -> <<2, 15>>
      [] a = "pathology investigation - sgpt" /\ b = "" -> <<0, 30>>
      [] a = "pathology investigation - sgpt" /\ b = "ecg charge" -> <<6, 40>>
      [] a = "pathology investigation - sgpt" /\ b = "ecg charges" -> <<6, 41>>
      [] a = "pathology investigation - sgpt" /\ b = "pathology investigation - sgpt" -> <<60, 60>>
      [] a = "pathology investigation - sgpt" /\ b = "sgpt" -> <<8, 34>>
      [] a = "sgpt" /\ b = "" -> <<0, 4>>
      [] a = "sgpt" /\ b = "ecg charge" -> <<2, 14>>
      [] a = "sgpt" /\ b = "ecg charges" -> <<4, 15>>
      [] a = "sgpt" /\ b = "pathology investigation - sgpt" -> <<8, 34>>
      [] a = "sgpt" /\ b = "sgpt" -> <<8, 8>>

\* comparison of two scores
ScoreGE(s, t) == s[1] * t[2] >= t[1] * s[2]

ScoreMax(s, t) == IF ScoreGE(s, t) THEN s ELSE t

\* value_extractor.py:39-46, 52-53: 0.0 without the capability; with it the
\* cosine of the two embeddings, which is 1 for equal strings.  The call
\* loads the model by _get_embed_model (lines 33-37) when _embed_model is
\* None; _descriptions_match makes the call only when _embed_model is not
\* None, so no call ever assigns _embed_model.
_embed_similarity(a, b) ==
    IF ~embeddings_available THEN <<0, 1>>
    ELSE IF a = b THEN <<1, 1>> ELSE cosine

\* value_extractor.py:207-233
_descriptions_match(desc_a, desc_b) ==
    LET na == _normalize_text(desc_a)
        nb == _normalize_text(desc_b)
        tokens_a == TokenSet(na)
        tokens_b == TokenSet(nb)
        fz == _fuzzy_ratio(na, nb)
        emb == IF _embed_model # None THEN _embed_similarity(na, nb) ELSE <<0, 1>>
    IN  IF na # "" /\ na = nb THEN [matched |-> TRUE, score |-> <<1, 1>>]
        ELSE IF tokens_a \subseteq tokens_b \/ tokens_b \subseteq tokens_a
             THEN [matched |-> TRUE, score |-> <<9, 10>>]
        ELSE IF ScoreGE(fz, <<90, 100>>) THEN [matched |-> TRUE, score |-> fz]
        ELSE IF ScoreGE(emb, <<80, 100>>) THEN [matched |-> TRUE, score |-> emb]
        ELSE [matched |-> FALSE, score |-> ScoreMax(fz, emb)]

\* variant: floor(x + 0.5) whatever the sign
_round_half_up(x) ==
    IF x = None THEN None ELSE Some((x[1] + 5) \div 10)

\* value_extractor.py:158-165 on tenths: floor(x + 0.5) for x >= 0,
\* ceil(x - 0.5) for x < 0; None for None
_round_half_away_from_zero(x) ==
    IF x = None THEN None
    ELSE IF x[1] >= 0 THEN Some((x[1] + 5) \div 10)
    ELSE Some(-((5 - x[1]) \div 10))

\* a confidence that is None (value_extractor.py:391, obj.get("confidence", None))
NoConfidence == -1

\* variant: the second provider wins a tie
_choose_value_prefer_second(g_value, g_conf, o_value, o_conf) ==
    LET gc == IF g_conf # NoConfidence THEN g_conf ELSE 0
        oc == IF o_conf # NoConfidence THEN o_conf ELSE 0
    IN  IF gc > oc THEN [value |-> g_value, conf |-> gc]
        ELSE [value |-> o_value, conf |-> oc]

\* value_extractor.py:168-180
_choose_value_and_conf(g_value, g_conf, o_value, o_conf) ==
    LET gc == IF g_conf # NoConfidence THEN g_conf ELSE 0
        oc == IF o_conf # NoConfidence THEN o_conf ELSE 0
    IN  IF gc = oc THEN [value |-> g_value, conf |-> gc]
        ELSE IF gc > oc THEN [value |-> g_value, conf |-> gc]
        ELSE [value |-> o_value, conf |-> oc]

\* value_extractor.py:183-190
_both_conf_over_90(conf_list_a, conf_list_b) ==
    \A k \in 1..Min(Len(conf_list_a), Len(conf_list_b)) :
        ~(\/ conf_list_a[k] = NoConfidence \/ conf_list_a[k] < 70
          \/ conf_list_b[k] = NoConfidence \/ conf_list_b[k] < 70)

\* str(v or "") of an Optional string value (value_extractor.py:423, 479)
StrOrEmpty(value) == IF value = None THEN "" ELSE value[1]

\* value_extractor.py:390-392
_extract_header_field(d, key) == d[key]

\* value_extractor.py:395-396
_extract_line_items(d) == d.line_items

\* value_extractor.py:411-412
set_field(value, conf) == [value |-> value, confidence |-> conf]

StringKeys == {"hospital_name", "patient_name", "bill_no"}

DateKeys == {"bill_date", "admission_date", "discharge_date"}

NumberKeys == {"net_payable_amount"}

HeaderKeys == StringKeys \cup DateKeys \cup NumberKeys

\* value_extractor.py:423  matched flag of a string header field
StringFieldMatched(gv, ov) ==
    _descriptions_match(StrOrEmpty(gv), StrOrEmpty(ov)).matched

\* value_extractor.py:437  matched flag of a date header field
DateFieldMatched(gv, ov) == gv = ov /\ gv # None

\* value_extractor.py:446-448  matched flag of the amount header field
NumberFieldMatched(gv, ov) ==
    LET gi == _round_half_away_from_zero(gv)
        oi == _round_half_away_from_zero(ov)
    IN  gi # None /\ oi # None /\ gi = oi

\* value_extractor.py:416-426, 429-440, 443-451: one header field
MergeHeaderField(key, gf, of) ==
    LET chosen == _choose_value_and_conf(gf.value, gf.confidence, of.value, of.confidence)
        matched == IF key \in StringKeys THEN StringFieldMatched(gf.value, of.value)
                   ELSE IF key \in DateKeys THEN DateFieldMatched(gf.value, of.value)
                   ELSE NumberFieldMatched(gf.value, of.value)
        final_conf == IF matched /\ _both_conf_over_90(<<gf.confidence>>, <<of.confidence>>)
                      THEN 100 ELSE 50
    IN  IF key \notin NumberKeys /\ gf.value = None /\ of.value = None
        THEN set_field(None, 50)
        ELSE set_field(chosen.value, final_conf)

\* value_extractor.py:398-453
_merge_headers(gp, op) ==
    [key \in HeaderKeys |->
        MergeHeaderField(key, _extract_header_field(gp, key),
                              _extract_header_field(op, key))]

\* ---------------------------------------------------------------------
\* Line items (value_extractor.py:456-592)
\* ---------------------------------------------------------------------

\* value_extractor.py:456-467
_force_item_confidence(item, conf) ==
    [description |-> [value |-> item.description.value, confidence |-> conf],
     quantity |-> [value |-> item.quantity.value, confidence |-> conf],
     unit_price |-> [value |-> item.unit_price.value, confidence |-> conf],
     total_amount |-> [value |-> item.total_amount.value, confidence |-> conf]]

\* value_extractor.py:475-482: the candidate for positions gi, oi (empty when
\* the descriptions do not match)
Candidate(g_items, o_items, gi, oi) ==
    LET m == _descriptions_match(StrOrEmpty(g_items[gi].description.value),
                                 StrOrEmpty(o_items[oi].description.value))
    IN  IF m.matched THEN << [gi |-> gi, oi |-> oi, score |-> m.score] >> ELSE << >>

\* value_extractor.py:474-482: candidates in the order of the two loops
Candidates(g_items, o_items) ==
    LET n == Len(o_items)
        all[k \in 0..(Len(g_items) * n)] ==
            IF k = 0 THEN << >>
            ELSE all[k - 1] \o Candidate(g_items, o_items,
                                         ((k - 1) \div n) + 1, ((k - 1) % n) + 1)
    IN  all[Len(g_items) * n]

\* one candidate put into a list sorted by falling score, behind the
\* candidates of equal score (list.sort is stable)
RECURSIVE InsertByScore(_, _)
InsertByScore(sorted, c) ==
    IF sorted = << >> THEN << c >>
    ELSE IF ScoreGE(Head(sorted).score, c.score)
         THEN << Head(sorted) >> \o InsertByScore(Tail(sorted), c)
         ELSE << c >> \o sorted

\* value_extractor.py:484  candidates.sort(key=score, reverse=True)
SortByScore(candidates) ==
    LET srt[k \in 0..Len(candidates)] ==
            IF k = 0 THEN << >> ELSE InsertByScore(srt[k - 1], candidates[k])
    IN  srt[Len(candidates)]

\* variant: only the first list's items are checked for reuse
AcceptsUnlessGUsed(c, accepted) ==
    /\ ScoreGE(c.score, <<85, 100>>)
    /\ \A k \in DOMAIN accepted : accepted[k].gi # c.gi

\* value_extractor.py:490-494: the candidate is taken
Accepts(c, accepted) ==
    /\ ScoreGE(c.score, <<85, 100>>)
    /\ \A k \in DOMAIN accepted : accepted[k].gi # c.gi /\ accepted[k].oi # c.oi

\* value_extractor.py:470-497; positions count from 1
_greedy_match_pairs(g_items, o_items) ==
    LET candidates == SortByScore(Candidates(g_items, o_items))
        accepted[k \in 0..Len(candidates)] ==
            IF k = 0 THEN << >>
            ELSE IF Accepts(candidates[k], accepted[k - 1])
                 THEN Append(accepted[k - 1], candidates[k])
                 ELSE accepted[k - 1]
    IN  accepted[Len(candidates)]

\* variant: the quantities are not compared
NumbersAgreeButQuantity(gi, oi) ==
    /\ _round_half_away_from_zero(gi.unit_price.value)
         = _round_half_away_from_zero(oi.unit_price.value)
    /\ _round_half_away_from_zero(gi.total_amount.value)
         = _round_half_away_from_zero(oi.total_amount.value)

\* value_extractor.py:525-533: the three rounded numbers are equal
NumbersAgree(gi, oi) ==
    /\ _round_half_away_from_zero(gi.quantity.value)
         = _round_half_away_from_zero(oi.quantity.value)
    /\ _round_half_away_from_zero(gi.unit_price.value)
         = _round_half_away_from_zero(oi.unit_price.value)
    /\ _round_half_away_from_zero(gi.total_amount.value)
         = _round_half_away_from_zero(oi.total_amount.value)

\* the four confidences of an item, in the order of value_extractor.py:549
Confidences(item) ==
    << item.description.confidence, item.quantity.confidence,
       item.unit_price.confidence, item.total_amount.confidence >>

\* value_extractor.py:538-580: the merged item of a pair whose numbers agree
MergedItem(gi, oi) ==
    LET final_conf == IF _both_conf_over_90(Confidences(gi), Confidences(oi))
                      THEN 100 ELSE 50
        pick(f) == _choose_value_and_conf(gi[f].value, gi[f].confidence,
                                          oi[f].value, oi[f].confidence).value
    IN  [description |-> [value |-> pick("description"), confidence |-> final_conf],
         quantity |-> [value |-> pick("quantity"), confidence |-> final_conf],
         unit_price |-> [value |-> pick("unit_price"), confidence |-> final_conf],
         total_amount |-> [value |-> pick("total_amount"), confidence |-> final_conf]]

\* value_extractor.py:519-580: what one pair adds to final_items
PairItems(gi, oi) ==
    IF ~NumbersAgree(gi, oi)
    THEN << _force_item_confidence(gi, 50), _force_item_confidence(oi, 50) >>
    ELSE << MergedItem(gi, oi) >>

\* variant: an unmatched item keeps the confidences its provider gave
UnmatchedAsReported(items, paired) ==
    LET rest[k \in 0..Len(items)] ==
            IF k = 0 THEN << >>
            ELSE IF k \in paired THEN rest[k - 1]
                 ELSE Append(rest[k - 1], items[k])
    IN  rest[Len(items)]

\* value_extractor.py:582-590: the items of one list that are in no pair
Unmatched(items, paired) ==
    LET rest[k \in 0..Len(items)] ==
            IF k = 0 THEN << >>
            ELSE IF k \in paired THEN rest[k - 1]
                 ELSE Append(rest[k - 1], _force_item_confidence(items[k], 50))
    IN  rest[Len(items)]

\* value_extractor.py:500-592
_merge_line_items(g_items, o_items) ==
    LET matched == _greedy_match_pairs(g_items, o_items)
        paired_g == {matched[k].gi : k \in DOMAIN matched}
        paired_o == {matched[k].oi : k \in DOMAIN matched}
        fromPairs[k \in 0..Len(matched)] ==
            IF k = 0 THEN << >>
            ELSE fromPairs[k - 1]
                 \o PairItems(g_items[matched[k].gi], o_items[matched[k].oi])
    IN  fromPairs[Len(matched)] \o Unmatched(g_items, paired_g)
                                \o Unmatched(o_items, paired_o)

\* value_extractor.py:595-606: headers and line items of the fused payload
_build_fused_payload(gp, op) ==
    [key \in HeaderKeys \cup {"line_items"} |->
        IF key = "line_items"
        THEN _merge_line_items(_extract_line_items(gp), _extract_line_items(op))
        ELSE _merge_headers(gp, op)[key]]

\* ---------------------------------------------------------------------
\* Payloads
\* ---------------------------------------------------------------------

\* confidences a payload holds (MASTER_PROMPT scale: 0.5, 0.7, 0.9, 1.0), or
\* none at all
ConfidenceLevels == {NoConfidence, 50, 70, 95}

Field(v, c) == [value |-> v, confidence |-> c]

\* a value reported as not present on the bill (value_extractor.py:73-77)
AbsentField == Field(None, 95)

StringFields ==
    {Field(v, c) : v \in {None} \cup {Some(t) : t \in Texts}, c \in ConfidenceLevels}

Dates == {"2024-01-05", "2024-01-06"}

DateFields ==
    {Field(v, c) : v \in {None} \cup {Some(d) : d \in Dates}, c \in ConfidenceLevels}

\* amounts in tenths, from -3.0 to 3.0: whole numbers, exact halves and
\* their neighbours, of either sign
AmountValues == {-30, -26, -25, -24, -5, 0, 5, 24, 25, 26, 30}

AmountFields ==
    {Field(v, c) : v \in {None} \cup {Some(a) : a \in AmountValues}, c \in ConfidenceLevels}

\* a payload whose string fields, date fields and amount are the given fields
Payload(sf, df, nf, items) ==
    [hospital_name |-> sf, patient_name |-> sf, bill_no |-> sf,
     bill_date |-> df, admission_date |-> df, discharge_date |-> df,
     net_payable_amount |-> nf, line_items |-> items]

Item(d, q, u, t) ==
    [description |-> d, quantity |-> q, unit_price |-> u, total_amount |-> t]

\* line items of the model: descriptions that match exactly after
\* normalization, by token subset, by fuzzy ratio, or not at all; numbers
\* that agree after rounding or differ; numbers absent; confidences above,
\* at and below 0.7, and missing
ExtractedItems ==
    { Item(Field(Some("SGPT"), 95), Field(Some(20), 95),
           Field(Some(1000), 95), Field(Some(2000), 95)),
      Item(Field(Some("sgpt."), 70), Field(Some(24), 70),
           Field(Some(1004), 70), Field(Some(1996), 70)),
      Item(Field(Some("Pathology Investigation - SGPT"), 95), Field(Some(25), 95),
           Field(Some(1000), 95), Field(Some(2000), 50)),
      Item(Field(Some("ECG Charge"), 95), Field(Some(-25), 95),
           Field(None, 95), Field(Some(-25), 95)),
      Item(Field(Some("ECG Charges"), 50), Field(Some(-30), 95),
           Field(None, 95), Field(Some(-30), 95)),
      Item(Field(None, 95), Field(None, 95), Field(None, 95), Field(None, 95)),
      Item(Field(Some("sgpt."), NoConfidence), Field(Some(24), 50),
           Field(Some(1004), 95), Field(Some(1996), 95)) }

\* pairs of payloads that differ in their string fields, in their date
\* fields or in their amount
HeaderCases ==
    {<<Payload(a, AbsentField, AbsentField, << >>),
       Payload(b, AbsentField, AbsentField, << >>)>> : a, b \in StringFields}
    \cup {<<Payload(AbsentField, a, AbsentField, << >>),
            Payload(AbsentField, b, AbsentField, << >>)>> : a, b \in DateFields}
    \cup {<<Payload(AbsentField, AbsentField, a, << >>),
            Payload(AbsentField, AbsentField, b, << >>)>> : a, b \in AmountFields}

\* pairs of payloads that differ in their line items
LineItemCases ==
    {<<Payload(AbsentField, AbsentField, AbsentField, a),
       Payload(AbsentField, AbsentField, AbsentField, b)>> :
        a, b \in SeqsUpTo(ExtractedItems, MaxLineItems)}

\* ---------------------------------------------------------------------
\* _build_fused_payload on a pair of payloads (value_extractor.py:595-606)
\* ---------------------------------------------------------------------

FusionInit ==
    /\ AdjudicationIdle
    /\ SimilarityIdle
    /\ OrchestrationIdle
    /\ ApplicationIdle
    /\ fpc = "start"
    /\ \E c \in HeaderCases \cup LineItemCases : res1 = c[1] /\ res2 = c[2]
    /\ fused_headers = None
    /\ pairs = << >>
    /\ fused_line_items = None

\* value_extractor.py:599-600
MergeHeaders ==
    /\ fpc = "start"
    /\ fused_headers' = Some(_merge_headers(res1, res2))
    /\ fpc' = "headers"
    /\ UNCHANGED <<adjudication, application, similarity, orchestration, res1, res2,
                   pairs, fused_line_items>>

\* value_extractor.py:603-607
MergeLineItems ==
    /\ fpc = "headers"
    /\ pairs' = _greedy_match_pairs(_extract_line_items(res1), _extract_line_items(res2))
    /\ fused_line_items' =
         Some(_merge_line_items(_extract_line_items(res1), _extract_line_items(res2)))
    /\ fpc' = "fused"
    /\ UNCHANGED <<adjudication, application, similarity, orchestration, res1, res2,
                   fused_headers>>

FusionNext ==
    \/ MergeHeaders
    \/ MergeLineItems

FusionSpec == FusionInit /\ [][FusionNext]_vars

\* ---------------------------------------------------------------------
\* extract_data_from_bill (value_extractor.py:700-813)
\* ---------------------------------------------------------------------

\* records a provider's extraction call can return: two that validate and
\* one whose confidence lies outside [0, 1]
ProviderRecords ==
    { Payload(Field(Some("SGPT"), 95), Field(Some("2024-01-05"), 95),
              Field(Some(25), 95),
              << Item(Field(Some("ECG Charge"), 95), Field(Some(20), 95),
                      Field(Some(1000), 95), Field(Some(2000), 95)) >>),
      Payload(Field(Some("sgpt."), 70), Field(Some("2024-01-06"), 70),
              Field(Some(30), 70), << >>),
      Payload(Field(Some("SGPT"), 150), AbsentField, AbsentField, << >>) }

\* an extraction call raises or returns a record
CallOutcomes ==
    {[raised |-> TRUE, value |-> None]}
    \cup {[raised |-> FALSE, value |-> r] : r \in ProviderRecords}

\* pydantic_schemas.py:174-213: ExtractedDataWithConfidence(**record) does
\* not raise ValidationError; the values of a record that validates are kept
Validates(record) ==
    /\ \A key \in HeaderKeys : record[key].confidence \in 0..100
    /\ \A k \in DOMAIN record.line_items :
         \A i \in 1..4 : Confidences(record.line_items[k])[i] \in 0..100

\* what the request ends with: a record (status 200) or an HTTPException
Returned(record) == Some([status |-> 200, body |-> Some(record)])
Raised(code) == Some([status |-> code, body |-> None])

\* variant: no replacement by Sonnet
ChosenPairPreferredOnly(gu, ou, su) ==
    IF gu /\ ou THEN <<"Gemini", "GPT-5">> ELSE << >>

\* value_extractor.py:726-737: chosen_labels, empty when no pair is available
ChosenPair(gu, ou, su) ==
    IF gu /\ ou THEN <<"Gemini", "GPT-5">>
    ELSE IF gu /\ ~ou /\ su THEN <<"Gemini", "Sonnet">>
    ELSE IF ou /\ ~gu /\ su THEN <<"GPT-5", "Sonnet">>
    ELSE << >>

\* value_extractor.py:740-765: the provider called when no pair is available
SingleProvider(gu, ou, su) ==
    IF gu THEN "Gemini" ELSE IF ou THEN "GPT-5" ELSE "Sonnet"

ExtractInit ==
    /\ AdjudicationIdle
    /\ SimilarityIdle
    /\ FusionIdle
    /\ OrchestrationIdle
    /\ ApplicationIdle

\* value_extractor.py:709 and 115-133
ConvertPdf ==
    /\ xpc = "start"
    /\ \E converted \in BOOLEAN :
         IF converted
         THEN xpc' = "gemini_uptime" /\ UNCHANGED extracted
         ELSE xpc' = "done" /\ extracted' = Raised(400)
    /\ UNCHANGED <<adjudication, application, similarity, fusion, gemini_up, openai_up,
                   sonnet_up, chosen_labels, results, providerOut>>

\* value_extractor.py:711
CheckGeminiUptime ==
    /\ xpc = "gemini_uptime"
    /\ gemini_up' \in BOOLEAN
    /\ xpc' = "openai_uptime"
    /\ UNCHANGED <<adjudication, application, similarity, fusion, openai_up, sonnet_up,
                   chosen_labels, results, extracted, providerOut>>

\* value_extractor.py:712
CheckOpenAIUptime ==
    /\ xpc = "openai_uptime"
    /\ openai_up' \in BOOLEAN
    /\ xpc' = "sonnet_uptime"
    /\ UNCHANGED <<adjudication, application, similarity, fusion, gemini_up, sonnet_up,
                   chosen_labels, results, extracted, providerOut>>

\* value_extractor.py:713
CheckSonnetUptime ==
    /\ xpc = "sonnet_uptime"
    /\ sonnet_up' \in BOOLEAN
    /\ xpc' = "choose"
    /\ UNCHANGED <<adjudication, application, similarity, fusion, gemini_up, openai_up,
                   chosen_labels, results, extracted, providerOut>>

\* value_extractor.py:716-739: no provider up, a pair, or a single provider
ChooseProviders ==
    /\ xpc = "choose"
    /\ IF ~gemini_up /\ ~openai_up /\ ~sonnet_up
       THEN /\ extracted' = Raised(503)
            /\ xpc' = "done"
            /\ UNCHANGED <<chosen_labels, results>>
       ELSE IF ChosenPair(gemini_up, openai_up, sonnet_up) # << >>
       THEN /\ chosen_labels' = ChosenPair(gemini_up, openai_up, sonnet_up)
            /\ results' = <<None, None>>
            /\ xpc' = "gather"
            /\ UNCHANGED extracted
       ELSE /\ xpc' = "single"
            /\ UNCHANGED <<chosen_labels, results, extracted>>
    /\ UNCHANGED <<adjudication, application, similarity, fusion, gemini_up, openai_up,
                   sonnet_up, providerOut>>

\* value_extractor.py:740-765: the single provider's record as it is, 503
\* when the call or the validation raises
SingleCall ==
    /\ xpc = "single"
    /\ \E out \in CallOutcomes :
         LET provider == SingleProvider(gemini_up, openai_up, sonnet_up)
         IN  /\ providerOut' = [providerOut EXCEPT ![provider] = Some(out)]
             /\ extracted' = IF out.raised \/ ~Validates(out.value)
                             THEN Raised(503)
                             ELSE Returned(out.value)
    /\ xpc' = "done"
    /\ UNCHANGED <<adjudication, application, similarity, fusion, gemini_up, openai_up,
                   sonnet_up, chosen_labels, results>>

\* value_extractor.py:816-831: one of the two wrapped calls finishes
PairCallComplete(i) ==
    /\ xpc = "gather"
    /\ results[i] = None
    /\ \E out \in CallOutcomes :
         /\ results' = [results EXCEPT ![i] = Some(out)]
         /\ providerOut' = [providerOut EXCEPT ![chosen_labels[i]] = Some(out)]
    /\ UNCHANGED <<adjudication, application, similarity, fusion, xpc, gemini_up, openai_up,
                   sonnet_up, chosen_labels, extracted>>

\* variant: a call that raised fails the request
JoinResultFailFast(first, second) ==
    IF first.raised \/ second.raised THEN Raised(503)
    ELSE IF Validates(first.value) /\ Validates(second.value)
            /\ Validates(_build_fused_payload(first.value, second.value))
    THEN Returned(_build_fused_payload(first.value, second.value))
    ELSE Raised(500)

\* value_extractor.py:772-813: what the request ends with, given the two
\* (result, exception) slots
JoinResult(first, second) ==
    IF ~first.raised /\ second.raised
    THEN IF Validates(first.value) THEN Returned(first.value) ELSE Raised(500)
    ELSE IF ~second.raised /\ first.raised
    THEN IF Validates(second.value) THEN Returned(second.value) ELSE Raised(500)
    ELSE IF first.raised /\ second.raised
    THEN Raised(503)
    ELSE IF Validates(first.value) /\ Validates(second.value)
            /\ Validates(_build_fused_payload(first.value, second.value))
    THEN Returned(_build_fused_payload(first.value, second.value))
    ELSE Raised(500)

\* value_extractor.py:768-813: both wrapped calls have finished
PairJoin ==
    /\ xpc = "gather"
    /\ results[1] # None
    /\ results[2] # None
    /\ extracted' = JoinResult(results[1][1], results[2][1])
    /\ xpc' = "done"
    /\ UNCHANGED <<adjudication, application, similarity, fusion, gemini_up, openai_up,
                   sonnet_up, chosen_labels, results, providerOut>>

ExtractNext ==
    \/ ConvertPdf
    \/ CheckGeminiUptime
    \/ CheckOpenAIUptime
    \/ CheckSonnetUptime
    \/ ChooseProviders
    \/ SingleCall
    \/ \E i \in 1..2 : PairCallComplete(i)
    \/ PairJoin

ExtractSpec == ExtractInit /\ [][ExtractNext]_vars

\* ---------------------------------------------------------------------
\* _descriptions_match, call after call of one process
\* (value_extractor.py:25-53, 207-233)
\* ---------------------------------------------------------------------

\* calls of _descriptions_match in one process
MaxMatchCalls == 2

\* cosines the embedding model can give for two different strings: 0.0, 0.5
\* and 0.85
Cosines == {<<0, 1>>, <<50, 100>>, <<85, 100>>}

MatchInit ==
    /\ AdjudicationIdle
    /\ OrchestrationIdle
    /\ ApplicationIdle
    /\ FusionIdle
    /\ _embed_model = None
    /\ embeddings_available \in BOOLEAN
    /\ cosine \in Cosines
    /\ match_calls = 0
    /\ called_a = ""
    /\ called_b = ""
    /\ match_result = None

\* value_extractor.py:207-233: one call; _embed_model is assigned nowhere on
\* its path (see _embed_similarity)
DescriptionsMatch ==
    /\ match_calls < MaxMatchCalls
    /\ \E a, b \in Texts :
         /\ called_a' = a
         /\ called_b' = b
         /\ match_result' = Some(_descriptions_match(a, b))
    /\ match_calls' = match_calls + 1
    /\ UNCHANGED <<adjudication, application, orchestration, fusion, _embed_model,
                   embeddings_available, cosine>>

MatchNext == DescriptionsMatch

MatchSpec == MatchInit /\ [][MatchNext]_vars

\* ---------------------------------------------------------------------
\* Properties of the reconciliation
\* ---------------------------------------------------------------------

\* the comparison value of _both_conf_over_90
AgreementThreshold == 70

\* the two providers' values of a header field match: description matching
\* for strings, exact equality for dates, rounded equality for the amount
HeaderValuesMatch(key, gv, ov) ==
    /\ gv # None
    /\ ov # None
    /\ IF key \in StringKeys THEN _descriptions_match(gv[1], ov[1]).matched
       ELSE IF key \in DateKeys THEN gv = ov
       ELSE _round_half_away_from_zero(gv) = _round_half_away_from_zero(ov)

\* C16: for every header field merged by _merge_headers, the merged
\* confidence is 1.0 iff the two providers' values match and both providers'
\* confidences for that field are strictly greater than the agreement
\* threshold; in every other case it is 0.5.
C16_HeaderConfidence ==
    fused_headers # None =>
        \A key \in HeaderKeys :
            LET gf == res1[key]
                of == res2[key]
                agreed == /\ HeaderValuesMatch(key, gf.value, of.value)
                          /\ gf.confidence > AgreementThreshold
                          /\ of.confidence > AgreementThreshold
            IN  fused_headers[1][key].confidence = (IF agreed THEN 100 ELSE 50)

\* the lists _merge_line_items was given and the list it returned
ListA == _extract_line_items(res1)
ListB == _extract_line_items(res2)
final_items == fused_line_items[1]

\* the two items of the k-th pair
PairA(k) == ListA[pairs[k].gi]
PairB(k) == ListB[pairs[k].oi]

ItemKeys == {"description", "quantity", "unit_price", "total_amount"}
NumberItemKeys == {"quantity", "unit_price", "total_amount"}

\* an item with its four values kept and its four confidences 0.5
AtHalfConfidence(item) ==
    [f \in ItemKeys |-> [value |-> item[f].value, confidence |-> 50]]

\* the positions of a list that are in no pair
UnpairedA == {i \in DOMAIN ListA : \A k \in DOMAIN pairs : pairs[k].gi # i}
UnpairedB == {i \in DOMAIN ListB : \A k \in DOMAIN pairs : pairs[k].oi # i}

\* both values are numbers that round to the same integer
RoundToSameInteger(x, y) ==
    /\ x # None
    /\ y # None
    /\ _round_half_away_from_zero(x) = _round_half_away_from_zero(y)

\* the three numbers of the k-th pair each round to the same integer
SameIntegers(k) ==
    \A f \in NumberItemKeys : RoundToSameInteger(PairA(k)[f].value, PairB(k)[f].value)

\* as SameIntegers, a number absent on both sides counting as agreeing
SameIntegersOrAbsent(k) ==
    \A f \in NumberItemKeys :
        \/ PairA(k)[f].value = None /\ PairB(k)[f].value = None
        \/ RoundToSameInteger(PairA(k)[f].value, PairB(k)[f].value)

\* where the k-th pair starts in the returned list when the pairs that
\* satisfy Merged take one place and the others two
PairStart(Merged(_), k) ==
    LET start[j \in 1..k] ==
            IF j = 1 THEN 1
            ELSE start[j - 1] + (IF Merged(j - 1) THEN 1 ELSE 2)
    IN  start[k]

\* every pair that satisfies Merged became one item whose values come from
\* the pair, every other pair became its two items at confidence 0.5
MergedExactlyWhen(Merged(_)) ==
    fpc = "fused" =>
        /\ Len(final_items) = PairStart(Merged, Len(pairs) + 1) - 1
                               + Cardinality(UnpairedA) + Cardinality(UnpairedB)
        /\ \A k \in DOMAIN pairs :
             LET s == PairStart(Merged, k)
             IN  IF Merged(k)
                 THEN \A f \in ItemKeys :
                        final_items[s][f].value \in {PairA(k)[f].value, PairB(k)[f].value}
                 ELSE /\ final_items[s] = AtHalfConfidence(PairA(k))
                      /\ final_items[s + 1] = AtHalfConfidence(PairB(k))

\* C17: a matched pair whose three numbers agree becomes one merged item
\* whose four confidences are all 1.0 when all four confidences of both
\* sides are strictly greater than the agreement threshold, and all 0.5
\* otherwise.
C17_MergedItemConfidence ==
    fpc = "fused" =>
        \A k \in DOMAIN pairs :
            SameIntegersOrAbsent(k) =>
                LET merged == final_items[PairStart(SameIntegersOrAbsent, k)]
                    allAbove == \A i \in 1..4 :
                                   /\ Confidences(PairA(k))[i] > AgreementThreshold
                                   /\ Confidences(PairB(k))[i] > AgreementThreshold
                IN  \A i \in 1..4 :
                        Confidences(merged)[i] = (IF allAbove THEN 100 ELSE 50)

\* C18 as stated: a pair matched by description is merged into one item
\* exactly when quantity, unit price and total each round (half away from
\* zero) to the same integer on both sides; otherwise both items are emitted
\* separately, values unchanged, confidences 0.5.
C18_MergedIffSameIntegers == MergedExactlyWhen(SameIntegers)

\* C18 amended: a pair matched by description is merged into one item
\* exactly when each of quantity, unit price and total either rounds to the
\* same integer on both sides or is absent on both sides; otherwise both
\* items are emitted separately, values unchanged, confidences 0.5.
C18_MergedIffSameIntegersOrAbsent == MergedExactlyWhen(SameIntegersOrAbsent)

\* a pair was merged, a pair with a number absent on both sides was merged,
\* and a pair was emitted as two items
C18_Witness ==
    /\ fpc = "fused"
    /\ Len(pairs) = 2
    /\ \E k \in DOMAIN pairs : SameIntegersOrAbsent(k) /\ ~SameIntegers(k)
    /\ \E k \in DOMAIN pairs : ~SameIntegersOrAbsent(k)

\* the description match of the i-th item of A and the j-th item of B
Match(i, j) ==
    _descriptions_match(StrOrEmpty(ListA[i].description.value),
                        StrOrEmpty(ListB[j].description.value))

AcceptanceScore == <<85, 100>>

\* the candidate (i, j) matches at the acceptance score and is not a pair
LeftOut(i, j) ==
    /\ Match(i, j).matched
    /\ ScoreGE(Match(i, j).score, AcceptanceScore)
    /\ \A k \in DOMAIN pairs : ~(pairs[k].gi = i /\ pairs[k].oi = j)

\* C19: the pairs of _greedy_match_pairs are a one-to-one matching, every
\* pair is a description match with score >= 0.85, and a matching candidate
\* with score >= 0.85 is left out only when one of its two items belongs to
\* an accepted pair whose score is at least as high.
C19_GreedyMatching ==
    fpc = "fused" =>
        /\ \A k \in DOMAIN pairs :
             /\ pairs[k].gi \in DOMAIN ListA
             /\ pairs[k].oi \in DOMAIN ListB
             /\ Match(pairs[k].gi, pairs[k].oi).matched
             /\ Match(pairs[k].gi, pairs[k].oi).score = pairs[k].score
             /\ ScoreGE(pairs[k].score, AcceptanceScore)
        /\ \A j, k \in DOMAIN pairs :
             j # k => pairs[j].gi # pairs[k].gi /\ pairs[j].oi # pairs[k].oi
        /\ \A i \in DOMAIN ListA, j \in DOMAIN ListB :
             LeftOut(i, j) =>
                 \E k \in DOMAIN pairs :
                     /\ pairs[k].gi = i \/ pairs[k].oi = j
                     /\ ScoreGE(pairs[k].score, Match(i, j).score)

\* two pairs were accepted and a matching candidate was left out
C19_Witness ==
    /\ fpc = "fused"
    /\ Len(pairs) = 2
    /\ \E i \in DOMAIN ListA, j \in DOMAIN ListB : LeftOut(i, j)

\* the items of a list at the given positions, in list order, at
\* confidence 0.5
KeptItems(items, positions) ==
    LET kept[k \in 0..Len(items)] ==
            IF k = 0 THEN << >>
            ELSE IF k \in positions
                 THEN Append(kept[k - 1], AtHalfConfidence(items[k]))
                 ELSE kept[k - 1]
    IN  kept[Len(items)]

\* the pairs that became one item
MergedPairs == {k \in DOMAIN pairs : SameIntegersOrAbsent(k)}

\* C20: _merge_line_items loses and duplicates no item: the items in no
\* accepted pair close the returned list, each once, values unchanged and
\* all confidences 0.5, and the list holds len(A) + len(B) - (number of
\* merged pairs) items.
C20_NoItemLost ==
    fpc = "fused" =>
        LET tail == KeptItems(ListA, UnpairedA) \o KeptItems(ListB, UnpairedB)
            n == Len(final_items)
        IN  /\ n = Len(ListA) + Len(ListB) - Cardinality(MergedPairs)
            /\ n >= Len(tail)
            /\ SubSeq(final_items, n - Len(tail) + 1, n) = tail
            /\ n - Len(tail) = 2 * Len(pairs) - Cardinality(MergedPairs)

\* a pair was merged and each list kept an item that is in no pair
C20_Witness ==
    /\ fpc = "fused"
    /\ MergedPairs # {}
    /\ UnpairedA # {}
    /\ UnpairedB # {}
    /\ \E i \in UnpairedA : ListA[i] # AtHalfConfidence(ListA[i])

\* the providers the uptime check found reachable
Reachable ==
    {p \in Providers : \/ p = "Gemini" /\ gemini_up
                       \/ p = "GPT-5" /\ openai_up
                       \/ p = "Sonnet" /\ sonnet_up}

\* the request has ended and the uptime check had been made
Served == xpc = "done" /\ extracted # Raised(400)

\* the degradation policy: two reachable providers fused, the one reachable
\* provider's record as it is, or a failure
DegradationPolicy ==
    IF Cardinality(Reachable) >= 2
    THEN \E p, q \in Reachable :
            /\ p # q
            /\ providerOut[p] # None /\ ~providerOut[p][1].raised
            /\ providerOut[q] # None /\ ~providerOut[q][1].raised
            /\ extracted = Returned(_build_fused_payload(providerOut[p][1].value,
                                                         providerOut[q][1].value))
    ELSE IF Cardinality(Reachable) = 1
    THEN \E p \in Reachable :
            /\ providerOut[p] # None /\ ~providerOut[p][1].raised
            /\ extracted = Returned(providerOut[p][1].value)
    ELSE extracted # None /\ extracted[1].status # 200

CallsReturnedValidRecords ==
    \A p \in Providers :
        providerOut[p] # None =>
            ~providerOut[p][1].raised /\ Validates(providerOut[p][1].value)

CountedConfidence(c) == IF c = NoConfidence THEN 0 ELSE c

\* the value of the provider with the strictly higher confidence, the first
\* provider's on a tie
HigherConfidenceValue(gf, of) ==
    IF CountedConfidence(of.confidence) > CountedConfidence(gf.confidence)
    THEN of.value
    ELSE gf.value

\* C21: for every header field and every field of a merged line item, the
\* value in the fused record is the value of the provider whose confidence
\* for the field is strictly higher, the first provider's when the two are
\* equal, a missing confidence counting as 0.
C21_ChosenValue ==
    /\ fused_headers # None =>
         \A key \in HeaderKeys :
             fused_headers[1][key].value = HigherConfidenceValue(res1[key], res2[key])
    /\ fpc = "fused" =>
         \A k \in DOMAIN pairs :
             SameIntegersOrAbsent(k) =>
                 \A f \in ItemKeys :
                     final_items[PairStart(SameIntegersOrAbsent, k)][f].value
                         = HigherConfidenceValue(PairA(k)[f], PairB(k)[f])

\* a merged pair with a field on which the confidences tie and the values
\* differ, and a field whose confidence is missing on one side only
C21_Witness ==
    /\ fpc = "fused"
    /\ \E k \in DOMAIN pairs :
         /\ SameIntegersOrAbsent(k)
         /\ \E f \in ItemKeys :
              /\ PairA(k)[f].confidence = PairB(k)[f].confidence
              /\ PairA(k)[f].value # PairB(k)[f].value
         /\ \E f \in ItemKeys :
              /\ PairA(k)[f].confidence = NoConfidence
              /\ PairB(k)[f].confidence # NoConfidence
              /\ PairA(k)[f].value # PairB(k)[f].value

\* exactly one of the two values is null and the other is a non-empty string
OneSidedNull(gv, ov) ==
    \/ gv = None /\ ov # None /\ ov # Some("")
    \/ ov = None /\ gv # None /\ gv # Some("")

\* C30: for a string header field that exactly one provider reports as null
\* while the other reports a non-empty value, _merge_headers gives the merged
\* field confidence 0.5, never 1.0, whatever the two reported confidences are.
C30_OneSidedNullIsHalf ==
    fused_headers # None =>
        \A key \in StringKeys :
            OneSidedNull(res1[key].value, res2[key].value) =>
                fused_headers[1][key].confidence = 50

\* C23: for every pair of descriptions a and b (empty and null-derived
\* strings included), _descriptions_match(a, b) and _descriptions_match(b, a)
\* return the same matched flag and the same score.
C23_MatchSymmetric ==
    match_result # None =>
        LET swapped == _descriptions_match(called_b, called_a)
        IN  /\ match_result[1].matched = swapped.matched
            /\ ScoreGE(match_result[1].score, swapped.score)
            /\ ScoreGE(swapped.score, match_result[1].score)

\* rules 1 to 3 of _descriptions_match do not apply to the latest call
NoTextualMatch ==
    LET na == _normalize_text(called_a)
        nb == _normalize_text(called_b)
    IN  /\ ~(na # "" /\ na = nb)
        /\ ~(TokenSet(na) \subseteq TokenSet(nb))
        /\ ~(TokenSet(nb) \subseteq TokenSet(na))
        /\ ~ScoreGE(_fuzzy_ratio(na, nb), <<90, 100>>)

\* the embedding similarity of the two descriptions of the latest call
EmbeddingSimilarity ==
    IF _normalize_text(called_a) = _normalize_text(called_b) THEN <<1, 1>> ELSE cosine

\* C22: when the similarity capability is installed, every call of
\* _descriptions_match, the first of the process as well as later ones, on
\* two descriptions that rules 1 to 3 do not match and whose embedding
\* similarity is >= 0.80 returns (true, similarity); the similarity is taken
\* as 0 only when the capability is absent.
C22_EmbeddingMatch ==
    (match_result # None /\ embeddings_available /\ NoTextualMatch) =>
        IF ScoreGE(EmbeddingSimilarity, <<80, 100>>)
        THEN match_result[1] = [matched |-> TRUE, score |-> EmbeddingSimilarity]
        ELSE match_result[1] =
               [matched |-> FALSE,
                score |-> ScoreMax(_fuzzy_ratio(_normalize_text(called_a),
                                                _normalize_text(called_b)),
                                   EmbeddingSimilarity)]

\* the numbers of a payload: its amount and the numbers of its line items
NumbersOf(payload) ==
    {payload.net_payable_amount.value}
    \cup {payload.line_items[k][f].value :
            k \in DOMAIN payload.line_items, f \in NumberItemKeys}

\* r is the integer nearest to x tenths, an exact half going away from zero
NearestAwayFromZero(x, r) ==
    IF x >= 0 THEN 10 * r - 5 <= x /\ x < 10 * r + 5
    ELSE 10 * r - 5 < x /\ x <= 10 * r + 5

NotChosen == Providers \ {chosen_labels[k] : k \in DOMAIN chosen_labels}

====
